---- MODULE Spec2Model ----
(***************************************************************************)
(* A model of the geometry composition code of OpenNeoMC's SMR and PWR     *)
(* assembly examples: the radial pin composer (make_pin), the axial stack  *)
(* composers (make_stack, make_pin_stack, subdivided_fuel), the lattice    *)
(* arrays with their index overrides (core_geometry, pwr_assembly), the    *)
(* assembly template generator (assembly_universes), the rotation wrapper  *)
(* (rotate_universe), the root universe, the guide tube and control rod    *)
(* part of the pin catalog (pin_universes) with the bank planes it keeps   *)
(* in the module-level surfs, the keys a build reads from and binds in    *)
(* surfs, mats and the universe catalogs, and the fitness functions (FIT)  *)
(* of the optimisation scripts with their scratch directories.             *)
(*                                                                         *)
(* Every behaviour exercises one unit of the build on inputs drawn from    *)
(* bounded sets.  Positions are exact: a surface is placed at the rational *)
(* num/den (a plane's z0, a cylinder's squared radius) and lengths of the  *)
(* lattices are integers in units of 1e-5 cm.                              *)
(***************************************************************************)
EXTENDS Integers, Sequences, FiniteSets, TLC

VARIABLES
    unit,       \* the unit of the build this behaviour exercises
    call,       \* the last composer call: its function and arguments
    ret,        \* what that call returned: a universe, or the exception raised
    builder,    \* the function building the lattice array ("" before it starts)
    universes,  \* the lattice array under construction (numpy object array)
    log,        \* the index assignments applied to the array, in order
    override,   \* the index lists and value of the last override statement
    raised,     \* the exception that statement raised ("" if none)
    heap,       \* universes of reflector_universes, by object identity
    wrapped,    \* the arguments of the last rotate_universe call
    assembly,   \* the last array generated by assembly_universes
    probe,      \* the last lattice point-to-index lookup
    script,     \* the optimisation script whose FIT is evaluated
    evals,      \* the FIT calls: position in FIT, scratch directory, outcome
    fs,         \* the scratch directories that exist and the files in them
    workers,    \* the core_geometry calls: position, arguments, planes used
    registry,   \* the module-level surfs registry of each interpreter
    catalog,    \* the univs dictionary of pin_universes: key -> universe identity
    names       \* the keys bound in surfs, mats and the universe catalogs of a build

vars == <<unit, call, ret, builder, universes, log, override, raised, heap,
          wrapped, assembly, probe, script, evals, fs, workers, registry, catalog,
          names>>

\* the state of the fitness evaluations, of the concurrent builds and of the
\* pin catalog
EvalVars == <<script, evals, fs>>

BuildVars == <<workers, registry>>

Units == {"compose", "lattice", "reflector", "template", "index", "root", "evaluate",
          "build", "catalog", "turn", "pins", "planes",
          "enclose", "names"}

Min(a, b) == IF a < b THEN a ELSE b

Max(a, b) == IF a < b THEN b ELSE a

(***************************************************************************)
(* Bounds of the model.                                                    *)
(***************************************************************************)
\* longest surface list handed to a composer
MaxK == 3

\* side of the lattice arrays whose overrides are explored
LatN == 3

\* most override statements applied to one array
MaxOverrides == 2

\* most index pairs in one fancy-index override
MaxFancy == 2

\* most rotate_universe calls in one reflector build
MaxWraps == 2

\* successive rotations of one universe
MaxTurns == 4

\* most axial segments / radial rings of a subdivided fuel
MaxSplit == 3

(***************************************************************************)
(* Surfaces, half-spaces and regions (openmc.ZPlane, openmc.ZCylinder,     *)
(* openmc.Halfspace, openmc.Intersection, openmc.Complement).              *)
(* A region is kept as the sequence of the literals it intersects.         *)
(***************************************************************************)
ZPlane(num, den) == [typ |-> "zplane", num |-> num, den |-> den]

\* num/den is the squared radius
ZCylinder(num, den) == [typ |-> "zcyl", num |-> num, den |-> den]

\* openmc.rectangular_prism(2*half, 2*half), as one named region
RectPrism(half) == [typ |-> "prism", num |-> half, den |-> 1]

Pos(s) == [side |-> "+", surf |-> s]

Neg(s) == [side |-> "-", surf |-> s]

\* a region used as it is (the prism's interior), and its complement
Inside(s) == [side |-> "in", surf |-> s]

Complement(s) == [side |-> "~", surf |-> s]

\* Surface.evaluate(point), scaled by the positive denominator.  A point is
\* [z, r2, d]: its height, its squared distance x^2 + y^2 from the axis and
\* max(x, y); points are taken in the quadrant x, y >= 0.
Evaluate(s, pt) ==
    CASE s.typ = "zplane" -> pt.z * s.den - s.num
      [] s.typ = "zcyl"   -> pt.r2 * s.den - s.num
      [] s.typ = "prism"  -> pt.d * s.den - s.num

HalfspaceContainsStrictMutant(lit, pt) ==
    CASE lit.side = "+"  -> Evaluate(lit.surf, pt) > 0
      [] lit.side = "-"  -> Evaluate(lit.surf, pt) < 0
      [] lit.side = "in" -> Evaluate(lit.surf, pt) < 0
      [] lit.side = "~"  -> ~(Evaluate(lit.surf, pt) < 0)

\* Halfspace.__contains__: a point on the surface is on its positive side
HalfspaceContains(lit, pt) ==
    CASE lit.side = "+"  -> Evaluate(lit.surf, pt) >= 0
      [] lit.side = "-"  -> Evaluate(lit.surf, pt) < 0
      [] lit.side = "in" -> Evaluate(lit.surf, pt) < 0
      [] lit.side = "~"  -> ~(Evaluate(lit.surf, pt) < 0)

\* Intersection.__contains__; the empty intersection is a cell without region
RegionContains(region, pt) ==
    \A i \in 1..Len(region) : HalfspaceContains(region[i], pt)

(***************************************************************************)
(* Cells and universes.                                                    *)
(***************************************************************************)
Cell(fill, region) == [fill |-> fill, region |-> region]

\* a returned universe: its ordered cells
Universe(cells) == [exc |-> "", cells |-> cells, mat |-> ""]

\* a call that raised instead of returning
Raise(exc) == [exc |-> exc, cells |-> <<>>, mat |-> ""]

\* a fill that is a plain material, not a universe
Material(mat) == [exc |-> "", cells |-> <<>>, mat |-> mat]

NoCall == [fn |-> "", surfaces |-> <<>>, fills |-> <<>>, grid |-> "",
           boundary |-> ZCylinder(0, 1), inner |-> "", num_axial |-> 0,
           num_rings |-> 0]

NoRet == Raise("none")

NoOverride == [n |-> 0, xs |-> <<>>, ys |-> <<>>, value |-> ""]

NoWrap == [n |-> 0, univ |-> 0, rotation |-> <<>>, name |-> "", result |-> 0]

NoAssembly == [key |-> "", comment |-> "", template |-> 0, universes |-> <<>>]

NoProbe == [lattice |-> "", i |-> 0, j |-> 0, x |-> 0, y |-> 0, ix |-> 0, iy |-> 0]

(***************************************************************************)
(* The composers of smr/pins.py.  A Python sequence is a TLA+ sequence     *)
(* from 1; s[0] of an empty list raises IndexError, s[1:-1] and s[:-1] are *)
(* slices and zip stops at the shorter argument.  Cell and universe names  *)
(* take no part in the geometry and are left out.                          *)
(***************************************************************************)
SeqsUpTo(S, n) == UNION {[1..m -> S] : m \in 0..n}

\* surfs['rod grid box'] and the spacer materials
rod_grid_box == RectPrism(1)

\* openmc.model.subdivide(surfaces): below the first, between neighbours,
\* above the last; surfaces[0] of an empty list raises
subdivide(surfaces) ==
    <<  <<Neg(surfaces[1])>>  >>
    \o [i \in 1..(Len(surfaces) - 1) |-> <<Pos(surfaces[i]), Neg(surfaces[i + 1])>>]
    \o <<  <<Pos(surfaces[Len(surfaces)])>>  >>

RegionIAnd_InPlaceMutant(region, box) ==
    [region |-> Append(region, Inside(box)),
     box    |-> [box EXCEPT !.num = 0]]

\* cell.region &= surfs['rod grid box'], line 57: the left operand is the
\* half-space +surfaces[-1], which has no in-place operator, so a new
\* intersection is bound to cell.region; `box' is the right operand as the
\* statement leaves it
RegionIAnd(region, box) ==
    [region |-> Append(region, Inside(box)),
     box    |-> box]

PinRingSwappedMutant(mat, surf, outer) == Cell(mat, <<Neg(surf), Pos(outer)>>)

\* make_pin, lines 43-48: the cell between two neighbouring cylinders
PinRing(mat, surf, outer) == Cell(mat, <<Pos(surf), Neg(outer)>>)

make_pin(surfaces, materials, grid) ==
    IF Len(materials) = 0 \/ Len(surfaces) = 0
    THEN Raise("IndexError")
    ELSE LET mid     == SubSeq(materials, 2, Len(materials) - 1)
             inner   == SubSeq(surfaces, 1, Len(surfaces) - 1)
             first   == Cell(materials[1], <<Neg(surfaces[1])>>)
             between == [i \in 1..Min(Len(mid), Len(inner)) |->
                            PinRing(mid[i], inner[i], surfaces[i + 1])]
             last    == Cell(materials[Len(materials)],
                             <<Pos(surfaces[Len(surfaces)])>>)
             anded   == RegionIAnd(last.region, rod_grid_box)
         IN  IF grid = ""
             THEN Universe(<<first>> \o between \o <<last>>)
             ELSE Universe(<<first>> \o between
                       \o <<Cell(last.fill, anded.region)>>
                       \o <<Cell(IF grid = "bottom" THEN "In" ELSE "Zr",
                                 <<Complement(anded.box)>>)>>)

make_stack_DropLastMutant(surfaces, univs) ==
    IF Len(surfaces) = 0
    THEN Raise("IndexError")
    ELSE LET regions == subdivide(surfaces)
         IN  Universe([i \in 1..Min(Len(univs), Len(regions) - 1) |->
                          Cell(univs[i], regions[i])])

make_stack(surfaces, univs) ==
    IF Len(surfaces) = 0
    THEN Raise("IndexError")
    ELSE LET regions == subdivide(surfaces)
         IN  Universe([i \in 1..Min(Len(univs), Len(regions)) |->
                          Cell(univs[i], regions[i])])

make_pin_stack_UncutMutant(zsurfaces, univs, boundary, fuel_fill) ==
    IF Len(zsurfaces) = 0
    THEN Raise("IndexError")
    ELSE LET regions == subdivide(zsurfaces)
         IN  Universe([i \in 1..Min(Len(univs), Len(regions)) |->
                          Cell(univs[i], regions[i])]
                      \o <<Cell(fuel_fill, <<Neg(boundary)>>)>>)

make_pin_stack(zsurfaces, univs, boundary, fuel_fill) ==
    IF Len(zsurfaces) = 0
    THEN Raise("IndexError")
    ELSE LET regions == subdivide(zsurfaces)
         IN  Universe([i \in 1..Min(Len(univs), Len(regions)) |->
                          Cell(univs[i], Append(regions[i], Pos(boundary)))]
                      \o <<Cell(fuel_fill, <<Neg(boundary)>>)>>)

\* surfaces.py: pellet_OR = 0.3195*INCHES/2, in units of INCHES/20000
pellet_OR == 3195

\* surfaces.py: bottom_fuel_stack = 20 + 5 + 4.0*INCHES + 0.575*INCHES, in 1e-4 cm
bottom_fuel_stack == 366205

\* surfaces.py: active_fuel_length = 78.74*INCHES, in 1e-4 cm
active_fuel_length == 1999996

top_active_core == bottom_fuel_stack + active_fuel_length

\* np.linspace(bottom_fuel_stack, top_active_core, num_axial + 1)[1:-1]
axial_surfs(num_axial) ==
    [j \in 1..(num_axial - 1) |->
        ZPlane(bottom_fuel_stack * num_axial + j * (top_active_core - bottom_fuel_stack),
               num_axial)]

\* R = sqrt(i*pellet_OR**2/num_rings) for i in range(1, num_rings)
rings(num_rings) ==
    [i \in 1..(num_rings - 1) |-> ZCylinder(i * pellet_OR * pellet_OR, num_rings)]

subdivided_fuel(fill, num_axial, num_rings) ==
    IF num_axial > 1
    THEN IF num_rings > 1
         THEN LET axial  == subdivide(axial_surfs(num_axial))
                  radial == subdivide(rings(num_rings))
              IN  Universe([c \in 1..(Len(axial) * Len(radial)) |->
                      Cell(fill, axial[((c - 1) \div Len(radial)) + 1]
                                 \o radial[((c - 1) % Len(radial)) + 1])])
         ELSE LET axial == subdivide(axial_surfs(num_axial))
              IN  Universe([c \in 1..Len(axial) |-> Cell(fill, axial[c])])
    ELSE IF num_rings > 1
         THEN LET radial == subdivide(rings(num_rings))
              IN  Universe([c \in 1..Len(radial) |-> Cell(fill, radial[c])])
         ELSE Raise("RuntimeError")

fuel_fill_UnguardedMutant(mat, num_axial, num_rings) ==
    subdivided_fuel(mat, num_axial, num_rings)

\* pin_universes, lines 759-764: the fuel fill of one enrichment
fuel_fill(mat, num_axial, num_rings) ==
    IF num_rings > 1 \/ num_axial > 1
    THEN subdivided_fuel(mat, num_axial, num_rings)
    ELSE Material(mat)

(***************************************************************************)
(* The composer calls explored, one per behaviour: any surface list up to  *)
(* MaxK long, in any order, against any fill list up to MaxK + 1 long.     *)
(***************************************************************************)
Coordinates == {2 * c : c \in 1..MaxK}

CylinderLists == SeqsUpTo({ZCylinder(c, 1) : c \in Coordinates}, MaxK)

PlaneLists == SeqsUpTo({ZPlane(c, 1) : c \in Coordinates}, MaxK)

Materials == {"H2O", "Zr"}

PinUniverses == {"water pin", "GT empty"}

Grids == {"", "bottom", "intermediate", "top"}

ComposeFrame == <<unit, builder, universes, log, override, raised, heap,
                  wrapped, assembly, probe, EvalVars, BuildVars, catalog, names>>

MakePin ==
    /\ unit = "compose"
    /\ call = NoCall
    /\ \E surfaces \in CylinderLists, materials \in SeqsUpTo(Materials, MaxK + 1),
          grid \in Grids :
          /\ call' = [NoCall EXCEPT !.fn = "make_pin", !.surfaces = surfaces,
                                    !.fills = materials, !.grid = grid]
          /\ ret' = make_pin(surfaces, materials, grid)
    /\ UNCHANGED ComposeFrame

MakeStack ==
    /\ unit = "compose"
    /\ call = NoCall
    /\ \E surfaces \in PlaneLists, univs \in SeqsUpTo(PinUniverses, MaxK + 1) :
          /\ call' = [NoCall EXCEPT !.fn = "make_stack", !.surfaces = surfaces,
                                    !.fills = univs]
          /\ ret' = make_stack(surfaces, univs)
    /\ UNCHANGED ComposeFrame

MakePinStack ==
    /\ unit = "compose"
    /\ call = NoCall
    /\ \E zsurfaces \in PlaneLists, univs \in SeqsUpTo(PinUniverses, MaxK + 1),
          c \in {2, 2 * MaxK} :
          /\ call' = [NoCall EXCEPT !.fn = "make_pin_stack", !.surfaces = zsurfaces,
                                    !.fills = univs, !.boundary = ZCylinder(c, 1),
                                    !.inner = "UO2"]
          /\ ret' = make_pin_stack(zsurfaces, univs, ZCylinder(c, 1), "UO2")
    /\ UNCHANGED ComposeFrame

FuelFill ==
    /\ unit = "compose"
    /\ call = NoCall
    /\ \E num_axial \in 1..MaxSplit, num_rings \in 1..MaxSplit :
          /\ call' = [NoCall EXCEPT !.fn = "fuel_fill", !.inner = "UO2",
                                    !.num_axial = num_axial, !.num_rings = num_rings]
          /\ ret' = fuel_fill("UO2", num_axial, num_rings)
    /\ UNCHANGED ComposeFrame

(***************************************************************************)
(* Lattice arrays: np.tile of one default universe, then index overrides.  *)
(* core_geometry assigns one position per statement (universes[i, j] = u); *)
(* pwr_assembly assigns one universe through two index arrays              *)
(* (universes[void_loc_x, void_loc_y] = void_universe).  numpy reads an    *)
(* index i of an axis of length n as position i when 0 <= i < n, as        *)
(* position n + i when -n <= i < 0, and raises IndexError otherwise; an    *)
(* index-array assignment checks all its indices before it writes.         *)
(***************************************************************************)
Positions == (0..(LatN - 1)) \X (0..(LatN - 1))

\* the index values tried on each axis: the ends of the axis and their
\* neighbours on both sides
IndexValues == {-LatN - 1, -1, 0, LatN - 1, LatN}

IndexInBoundsOffByOneMutant(i, n) == -n <= i /\ i <= n

IndexInBounds(i, n) == -n <= i /\ i < n

Normalize(i, n) == IF i < 0 THEN n + i ELSE i

\* np.tile(default, (n, n))
Tile(default) == [p \in Positions |-> default]

SetItemTransposedMutant(arr, i, j, u) ==
    [arr EXCEPT ![<<Normalize(j, LatN), Normalize(i, LatN)>>] = u]

\* arr[i, j] = u with both indices in bounds
SetItem(arr, i, j, u) ==
    [arr EXCEPT ![<<Normalize(i, LatN), Normalize(j, LatN)>>] = u]

\* arr[xs, ys] = u with all indices in bounds: the pairs are written in order
RECURSIVE SetItems(_, _, _, _)
SetItems(arr, xs, ys, u) ==
    IF Len(xs) = 0
    THEN arr
    ELSE SetItems(SetItem(arr, xs[1], ys[1], u), Tail(xs), Tail(ys), u)

AllInBounds(xs, ys) ==
    \A k \in 1..Len(xs) : IndexInBounds(xs[k], LatN) /\ IndexInBounds(ys[k], LatN)

LatticeFrame == <<unit, call, ret, heap, wrapped, assembly, probe, EvalVars, BuildVars,
                  catalog, names>>

\* core.py line 38 / assembly_final.py line 93
TileLattice ==
    /\ unit = "lattice"
    /\ builder = ""
    /\ \E b \in {"core_geometry", "pwr_assembly"} :
          /\ builder' = b
          /\ universes' = Tile(IF b = "core_geometry" THEN "solid" ELSE "Fuel Pin")
    /\ UNCHANGED <<log, override, raised>>
    /\ UNCHANGED LatticeFrame

\* one statement universes[i, j] = u of core.py lines 40-116
OverrideCore ==
    /\ unit = "lattice"
    /\ builder = "core_geometry"
    /\ raised = ""
    /\ Len(log) < MaxOverrides
    /\ \E i \in IndexValues, j \in IndexValues, u \in {"NW", "Assembly"} :
          /\ override' = [n |-> Len(log) + 1, xs |-> <<i>>, ys |-> <<j>>, value |-> u]
          /\ IF IndexInBounds(i, LatN) /\ IndexInBounds(j, LatN)
             THEN /\ universes' = SetItem(universes, i, j, u)
                  /\ log' = Append(log, [i |-> i, j |-> j, value |-> u])
                  /\ raised' = ""
             ELSE /\ raised' = "IndexError"
                  /\ UNCHANGED <<universes, log>>
    /\ UNCHANGED builder
    /\ UNCHANGED LatticeFrame

\* assembly_final.py line 94, with index arrays of at least one pair
OverrideAssembly ==
    /\ unit = "lattice"
    /\ builder = "pwr_assembly"
    /\ raised = ""
    /\ override = NoOverride
    /\ \E m \in 1..MaxFancy :
       \E xs \in [1..m -> IndexValues], ys \in [1..m -> IndexValues] :
          /\ override' = [n |-> 1, xs |-> xs, ys |-> ys, value |-> "void pin"]
          /\ IF AllInBounds(xs, ys)
             THEN /\ universes' = SetItems(universes, xs, ys, "void pin")
                  /\ log' = log \o [k \in 1..m |->
                                      [i |-> xs[k], j |-> ys[k], value |-> "void pin"]]
                  /\ raised' = ""
             ELSE /\ raised' = "IndexError"
                  /\ UNCHANGED <<universes, log>>
    /\ UNCHANGED builder
    /\ UNCHANGED LatticeFrame

(***************************************************************************)
(* assembly_universes: every 17x17 array is filled with the fuel stack of  *)
(* its enrichment and then assigned, through the index arrays nonfuel_y    *)
(* and nonfuel_x, the 25 catalog entries its template lists.  Each         *)
(* template is generated twice, with the centre entry cent of the loop     *)
(* iteration: for cent, comment in [(gti, ''), (ins, ' instr')].           *)
(***************************************************************************)
nonfuel_y_DuplicateMutant ==
    <<2, 2, 2, 3, 3, 5, 5, 5, 5, 5, 8, 8, 8, 8, 8, 11, 11, 11, 11, 11, 13, 13, 14, 14, 11>>

nonfuel_y ==
    <<2, 2, 2, 3, 3, 5, 5, 5, 5, 5, 8, 8, 8, 8, 8, 11, 11, 11, 11, 11, 13, 13, 14, 14, 14>>

nonfuel_x ==
    <<5, 8, 11, 3, 13, 2, 5, 8, 11, 14, 2, 5, 8, 11, 14, 2, 5, 8, 11, 14, 3, 13, 5, 8, 11>>

\* the pin catalog entries the templates use (assemblies.py lines 145-157)
gtu == "GT empty"

gti == "GT empty instr"

bas == "BA stack"

ins == "IT stack"

crA == "GT CR bank A"

crB == "GT CR bank B"

crC == "GT CR bank C"

crD == "GT CR bank D"

crSA == "GT CR bank SA"

crSB == "GT CR bank SB"

crSC == "GT CR bank SC"

crSD == "GT CR bank SD"

crSE == "GT CR bank SE"

\* the loop header of every enrichment block: (cent, comment)
Centres == <<[cent |-> gti, comment |-> ""], [cent |-> ins, comment |-> " instr"]>>

\* the arrays of one loop iteration, in source order: the key under which the
\* assembly is stored (before comment is appended), the name given to
\* make_assembly, the fuel stack tiled and the list assigned to the mask
Templates(cent) ==
    <<
      [key |-> "Assembly (1.6%)", name |-> "Assembly (1.6%) no BAs", enrichment |-> "1.6%",
       fuel |-> "Fuel (1.6%) stack",
       list |-> <<gtu, gtu, gtu,
                  gtu, gtu,
                  gtu, gtu, gtu, gtu, gtu,
                  gtu, gtu, cent, gtu, gtu,
                  gtu, gtu, gtu, gtu, gtu,
                  gtu, gtu,
                  gtu, gtu, gtu>>],
      [key |-> "Assembly (1.6%) CR A", name |-> "Assembly (1.6%) CR A", enrichment |-> "1.6%",
       fuel |-> "Fuel (1.6%) stack",
       list |-> <<crA, crA, crA,
                  crA, crA,
                  crA, crA, crA, crA, crA,
                  crA, crA, cent, crA, crA,
                  crA, crA, crA, crA, crA,
                  crA, crA,
                  crA, crA, crA>>],
      [key |-> "Assembly (1.6%) CR B", name |-> "Assembly (1.6%) CR B", enrichment |-> "1.6%",
       fuel |-> "Fuel (1.6%) stack",
       list |-> <<crB, crB, crB,
                  crB, crB,
                  crB, crB, crB, crB, crB,
                  crB, crB, cent, crB, crB,
                  crB, crB, crB, crB, crB,
                  crB, crB,
                  crB, crB, crB>>],
      [key |-> "Assembly (1.6%) CR C", name |-> "Assembly (1.6%) CR C", enrichment |-> "1.6%",
       fuel |-> "Fuel (1.6%) stack",
       list |-> <<crC, crC, crC,
                  crC, crC,
                  crC, crC, crC, crC, crC,
                  crC, crC, cent, crC, crC,
                  crC, crC, crC, crC, crC,
                  crC, crC,
                  crC, crC, crC>>],
      [key |-> "Assembly (1.6%) CR D", name |-> "Assembly (1.6%) CR D", enrichment |-> "1.6%",
       fuel |-> "Fuel (1.6%) stack",
       list |-> <<crD, crD, crD,
                  crD, crD,
                  crD, crD, crD, crD, crD,
                  crD, crD, cent, crD, crD,
                  crD, crD, crD, crD, crD,
                  crD, crD,
                  crD, crD, crD>>],
      [key |-> "Assembly (1.6%) CR SB", name |-> "Assembly (1.6%) CR SB", enrichment |-> "1.6%",
       fuel |-> "Fuel (1.6%) stack",
       list |-> <<crSB, crSB, crSB,
                  crSB, crSB,
                  crSB, crSB, crSB, crSB, crSB,
                  crSB, crSB, cent, crSB, crSB,
                  crSB, crSB, crSB, crSB, crSB,
                  crSB, crSB,
                  crSB, crSB, crSB>>],
      [key |-> "Assembly (1.6%) CR SC", name |-> "Assembly (1.6%) CR SC", enrichment |-> "1.6%",
       fuel |-> "Fuel (1.6%) stack",
       list |-> <<crSC, crSC, crSC,
                  crSC, crSC,
                  crSC, crSC, crSC, crSC, crSC,
                  crSC, crSC, cent, crSC, crSC,
                  crSC, crSC, crSC, crSC, crSC,
                  crSC, crSC,
                  crSC, crSC, crSC>>],
      [key |-> "Assembly (1.6%) CR SD", name |-> "Assembly (1.6%) CR SD", enrichment |-> "1.6%",
       fuel |-> "Fuel (1.6%) stack",
       list |-> <<crSD, crSD, crSD,
                  crSD, crSD,
                  crSD, crSD, crSD, crSD, crSD,
                  crSD, crSD, cent, crSD, crSD,
                  crSD, crSD, crSD, crSD, crSD,
                  crSD, crSD,
                  crSD, crSD, crSD>>],
      [key |-> "Assembly (1.6%) CR SE", name |-> "Assembly (1.6%) CR SE", enrichment |-> "1.6%",
       fuel |-> "Fuel (1.6%) stack",
       list |-> <<crSE, crSE, crSE,
                  crSE, crSE,
                  crSE, crSE, crSE, crSE, crSE,
                  crSE, crSE, cent, crSE, crSE,
                  crSE, crSE, crSE, crSE, crSE,
                  crSE, crSE,
                  crSE, crSE, crSE>>],
      [key |-> "Assembly (2.4%) no BAs", name |-> "Assembly (2.4%) no BAs", enrichment |-> "2.4%",
       fuel |-> "Fuel (2.4%) stack",
       list |-> <<gtu, gtu, gtu,
                  gtu, gtu,
                  gtu, gtu, gtu, gtu, gtu,
                  gtu, gtu, cent, gtu, gtu,
                  gtu, gtu, gtu, gtu, gtu,
                  gtu, gtu,
                  gtu, gtu, gtu>>],
      [key |-> "Assembly (2.4%) CR D", name |-> "Assembly (2.4%) CR D", enrichment |-> "2.4%",
       fuel |-> "Fuel (2.4%) stack",
       list |-> <<crD, crD, crD,
                  crD, crD,
                  crD, crD, crD, crD, crD,
                  crD, crD, cent, crD, crD,
                  crD, crD, crD, crD, crD,
                  crD, crD,
                  crD, crD, crD>>],
      [key |-> "Assembly (2.4%) CR C", name |-> "Assembly (2.4%) CR C", enrichment |-> "2.4%",
       fuel |-> "Fuel (2.4%) stack",
       list |-> <<crC, crC, crC,
                  crC, crC,
                  crC, crC, crC, crC, crC,
                  crC, crC, cent, crC, crC,
                  crC, crC, crC, crC, crC,
                  crC, crC,
                  crC, crC, crC>>],
      [key |-> "Assembly (2.4%) CR B", name |-> "Assembly (2.4%) CR B", enrichment |-> "2.4%",
       fuel |-> "Fuel (2.4%) stack",
       list |-> <<crB, crB, crB,
                  crB, crB,
                  crB, crB, crB, crB, crB,
                  crB, crB, cent, crB, crB,
                  crB, crB, crB, crB, crB,
                  crB, crB,
                  crB, crB, crB>>],
      [key |-> "Assembly (2.4%) CR A", name |-> "Assembly (2.4%) CR A", enrichment |-> "2.4%",
       fuel |-> "Fuel (2.4%) stack",
       list |-> <<crA, crA, crA,
                  crA, crA,
                  crA, crA, crA, crA, crA,
                  crA, crA, cent, crA, crA,
                  crA, crA, crA, crA, crA,
                  crA, crA,
                  crA, crA, crA>>],
      [key |-> "Assembly (2.4%) 12BA", name |-> "Assembly (2.4%) 12BA", enrichment |-> "2.4%",
       fuel |-> "Fuel (2.4%) stack",
       list |-> <<bas, gtu, bas,
                  bas, bas,
                  bas, gtu, gtu, gtu, bas,
                  gtu, gtu, cent, gtu, gtu,
                  bas, gtu, gtu, gtu, bas,
                  bas, bas,
                  bas, gtu, bas>>],
      [key |-> "Assembly (2.4%) 16BA", name |-> "Assembly (2.4%) 16BA", enrichment |-> "2.4%",
       fuel |-> "Fuel (2.4%) stack",
       list |-> <<bas, bas, bas,
                  bas, bas,
                  bas, gtu, gtu, gtu, bas,
                  bas, gtu, cent, gtu, bas,
                  bas, gtu, gtu, gtu, bas,
                  bas, bas,
                  bas, bas, bas>>],
      [key |-> "Assembly (3.1%)", name |-> "Assembly (3.1%) no BAs", enrichment |-> "3.1%",
       fuel |-> "Fuel (3.1%) stack",
       list |-> <<gtu, gtu, gtu,
                  gtu, gtu,
                  gtu, gtu, gtu, gtu, gtu,
                  gtu, gtu, cent, gtu, gtu,
                  gtu, gtu, gtu, gtu, gtu,
                  gtu, gtu,
                  gtu, gtu, gtu>>],
      [key |-> "Assembly (3.1%) CR SA", name |-> "Assembly (3.1%) CR SA", enrichment |-> "3.1%",
       fuel |-> "Fuel (3.1%) stack",
       list |-> <<crSA, crSA, crSA,
                  crSA, crSA,
                  crSA, crSA, crSA, crSA, crSA,
                  crSA, crSA, cent, crSA, crSA,
                  crSA, crSA, crSA, crSA, crSA,
                  crSA, crSA,
                  crSA, crSA, crSA>>],
      [key |-> "Assembly (3.1%) 20BA", name |-> "Assembly (3.1%) 20BA", enrichment |-> "3.1%",
       fuel |-> "Fuel (3.1%) stack",
       list |-> <<bas, bas, bas,
                  bas, bas,
                  bas, bas, gtu, bas, bas,
                  bas, gtu, cent, gtu, bas,
                  bas, bas, gtu, bas, bas,
                  bas, bas,
                  bas, bas, bas>>],
      [key |-> "Assembly (3.1%) 16BA", name |-> "Assembly (3.1%) 16BA", enrichment |-> "3.1%",
       fuel |-> "Fuel (3.1%) stack",
       list |-> <<bas, bas, bas,
                  bas, bas,
                  bas, gtu, gtu, gtu, bas,
                  bas, gtu, cent, gtu, bas,
                  bas, gtu, gtu, gtu, bas,
                  bas, bas,
                  bas, bas, bas>>],
      [key |-> "Assembly (3.1%) 15BANW", name |-> "Assembly (3.1%) 15BANW", enrichment |-> "3.1%",
       fuel |-> "Fuel (3.1%) stack",
       list |-> <<gtu, gtu, gtu,
                  gtu, gtu,
                  gtu, bas, bas, bas, bas,
                  gtu, bas, cent, bas, bas,
                  gtu, bas, bas, bas, bas,
                  gtu, bas,
                  bas, bas, bas>>],
      [key |-> "Assembly (3.1%) 15BANE", name |-> "Assembly (3.1%) 15BANE", enrichment |-> "3.1%",
       fuel |-> "Fuel (3.1%) stack",
       list |-> <<gtu, gtu, gtu,
                  gtu, gtu,
                  bas, bas, bas, bas, gtu,
                  bas, bas, cent, bas, gtu,
                  bas, bas, bas, bas, gtu,
                  bas, gtu,
                  bas, bas, bas>>],
      [key |-> "Assembly (3.1%) 15BASW", name |-> "Assembly (3.1%) 15BASW", enrichment |-> "3.1%",
       fuel |-> "Fuel (3.1%) stack",
       list |-> <<bas, bas, bas,
                  gtu, bas,
                  gtu, bas, bas, bas, bas,
                  gtu, bas, cent, bas, bas,
                  gtu, bas, bas, bas, bas,
                  gtu, gtu,
                  gtu, gtu, gtu>>],
      [key |-> "Assembly (3.1%) 15BASE", name |-> "Assembly (3.1%) 15BASE", enrichment |-> "3.1%",
       fuel |-> "Fuel (3.1%) stack",
       list |-> <<bas, bas, bas,
                  bas, gtu,
                  bas, bas, bas, bas, gtu,
                  bas, bas, cent, bas, gtu,
                  bas, bas, bas, bas, gtu,
                  gtu, gtu,
                  gtu, gtu, gtu>>],
      [key |-> "Assembly (3.1%) 6BAN", name |-> "Assembly (3.1%) 6BAN", enrichment |-> "3.1%",
       fuel |-> "Fuel (3.1%) stack",
       list |-> <<gtu, gtu, gtu,
                  gtu, gtu,
                  gtu, gtu, gtu, gtu, gtu,
                  gtu, gtu, cent, gtu, gtu,
                  bas, gtu, gtu, gtu, bas,
                  bas, bas,
                  bas, gtu, bas>>],
      [key |-> "Assembly (3.1%) 6BAS", name |-> "Assembly (3.1%) 6BAS", enrichment |-> "3.1%",
       fuel |-> "Fuel (3.1%) stack",
       list |-> <<bas, gtu, bas,
                  bas, bas,
                  bas, gtu, gtu, gtu, bas,
                  gtu, gtu, cent, gtu, gtu,
                  gtu, gtu, gtu, gtu, gtu,
                  gtu, gtu,
                  gtu, gtu, gtu>>],
      [key |-> "Assembly (3.1%) 6BAW", name |-> "Assembly (3.1%) 6BAW", enrichment |-> "3.1%",
       fuel |-> "Fuel (3.1%) stack",
       list |-> <<gtu, gtu, bas,
                  gtu, bas,
                  gtu, gtu, gtu, gtu, bas,
                  gtu, gtu, cent, gtu, gtu,
                  gtu, gtu, gtu, gtu, bas,
                  gtu, bas,
                  gtu, gtu, bas>>],
      [key |-> "Assembly (3.1%) 6BAE", name |-> "Assembly (3.1%) 6BAE", enrichment |-> "3.1%",
       fuel |-> "Fuel (3.1%) stack",
       list |-> <<bas, gtu, gtu,
                  bas, gtu,
                  bas, gtu, gtu, gtu, gtu,
                  gtu, gtu, cent, gtu, gtu,
                  bas, gtu, gtu, gtu, gtu,
                  bas, gtu,
                  bas, gtu, gtu>>]
    >>

AssemblyPositions == (0..16) \X (0..16)

\* universes[ys, xs] = list: the entries are written in order
RECURSIVE AssignList(_, _, _, _)
AssignList(arr, ys, xs, list) ==
    IF Len(list) = 0
    THEN arr
    ELSE AssignList([arr EXCEPT ![<<Normalize(ys[1], 17), Normalize(xs[1], 17)>>] = list[1]],
                    Tail(ys), Tail(xs), Tail(list))

\* np.empty((17,17)); universes[:,:] = fuel; universes[nonfuel_y, nonfuel_x] = list
assembly_array(template) ==
    AssignList([p \in AssemblyPositions |-> template.fuel], nonfuel_y, nonfuel_x,
               template.list)

GenerateAssembly ==
    /\ unit = "template"
    /\ assembly = NoAssembly
    /\ \E c \in 1..Len(Centres) :
       \E t \in 1..Len(Templates(Centres[c].cent)) :
          assembly' = [key |-> Templates(Centres[c].cent)[t].key \o Centres[c].comment,
                       comment |-> Centres[c].comment,
                       template |-> t,
                       universes |-> assembly_array(Templates(Centres[c].cent)[t])]
    /\ UNCHANGED <<unit, call, ret, builder, universes, log, override, raised, heap,
                   wrapped, probe, EvalVars, BuildVars, catalog, names>>

(***************************************************************************)
(* The two lattices of the SMR model and the index of a point.  Lengths    *)
(* are in units of 1e-5 cm.  The repository sets pitch and lower_left; the *)
(* index of a point is floor((p - lower_left)/pitch) on each axis.         *)
(***************************************************************************)
\* surfaces.py: lattice_pitch = 8.466*INCHES
lattice_pitch == 2150364

\* surfaces.py: pin_pitch = 0.496*INCHES
pin_pitch == 125984

core_lattice_CornerOriginMutant ==
    [name |-> "Main core", n |-> 9, pitch |-> lattice_pitch,
     lower_left |-> -9 * lattice_pitch]

\* core.py lines 35-37
core_lattice ==
    [name |-> "Main core", n |-> 9, pitch |-> lattice_pitch,
     lower_left |-> (-9 * lattice_pitch) \div 2]

\* assemblies.py lines 30-32
assembly_lattice ==
    [name |-> "Assembly", n |-> 17, pitch |-> pin_pitch,
     lower_left |-> (-17 * pin_pitch) \div 2]

LatticeIndex(lat, p) == (p - lat.lower_left) \div lat.pitch

\* lower_left + (i + 1/2)*pitch
CellCentre(lat, i) == lat.lower_left + i * lat.pitch + lat.pitch \div 2

LocateCentre ==
    /\ unit = "index"
    /\ probe = NoProbe
    /\ \E lat \in {core_lattice, assembly_lattice} :
       \E i \in 0..(lat.n - 1), j \in 0..(lat.n - 1) :
          probe' = [lattice |-> lat.name, i |-> i, j |-> j,
                    x |-> CellCentre(lat, i), y |-> CellCentre(lat, j),
                    ix |-> LatticeIndex(lat, CellCentre(lat, i)),
                    iy |-> LatticeIndex(lat, CellCentre(lat, j))]
    /\ UNCHANGED <<unit, call, ret, builder, universes, log, override, raised, heap,
                   wrapped, assembly, EvalVars, BuildVars, catalog, names>>

(***************************************************************************)
(* reflector_universes: the blocks built by make_reflector and the copies  *)
(* rotate_universe derives from them.  Universes are objects: heap[id] is  *)
(* the universe with identity id, and a cell's fill names a material or    *)
(* the identity of a universe.                                             *)
(***************************************************************************)
MaterialFill(mat) == [univ |-> 0, mat |-> mat]

UniverseFill(id) == [univ |-> id, mat |-> ""]

Rotations_EighthTurnMutant ==
    {<<0, 0, -90>>, <<0, 0, 90>>, <<0, 0, 180>>, <<0, 180, -90>>, <<0, 180, 0>>,
     <<180, 0, 0>>, <<0, 0, 45>>}

\* the rotations reflector_universes passes (lines 202-223)
Rotations == {<<0, 0, -90>>, <<0, 0, 90>>, <<0, 0, 180>>, <<0, 180, -90>>,
              <<0, 180, 0>>, <<180, 0, 0>>}

\* make_reflector: one water hole per parameter tuple, then the steel around
\* them; hole k is the inside of its own cylinder
make_reflector(name, holes) ==
    [name  |-> "reflector " \o name,
     cells |-> [k \in 1..holes |->
                   [fill |-> MaterialFill("H2O"), region |-> <<Neg(ZCylinder(k, 1))>>,
                    rotation |-> <<>>]]
               \o <<[fill |-> MaterialFill("SS"),
                     region |-> [k \in 1..holes |-> Complement(ZCylinder(k, 1))],
                     rotation |-> <<>>]>>]

rotate_universe_InPlaceMutant(h, univ, rotation, name) ==
    Append([h EXCEPT ![univ].cells =
                [k \in 1..Len(h[univ].cells) |->
                    [h[univ].cells[k] EXCEPT !.rotation = rotation]]],
           [name  |-> name,
            cells |-> <<[fill |-> UniverseFill(univ), region |-> <<>>,
                         rotation |-> rotation]>>])

\* rotate_universe: the heap after the call; the universe returned is the
\* last one allocated
rotate_universe(h, univ, rotation, name) ==
    Append(h, [name  |-> name,
               cells |-> <<[fill |-> UniverseFill(univ), region |-> <<>>,
                            rotation |-> rotation]>>])

\* the universes make_reflector returned: the only ones the code rotates
Blocks(h) == {k \in 1..Len(h) : Len(h[k].cells[1].region) > 0}

ReflectorFrame == <<unit, call, ret, builder, universes, log, override, raised,
                    assembly, probe, EvalVars, BuildVars, catalog, names>>

\* the blocks made before line 191, of which two are kept: 'NW' and '2,0'
MakeReflectors ==
    /\ unit \in {"reflector", "turn"}
    /\ heap = <<>>
    /\ heap' = <<make_reflector("NW", 13), make_reflector("2,0", 1)>>
    /\ UNCHANGED wrapped
    /\ UNCHANGED ReflectorFrame

RotateUniverse ==
    /\ unit = "reflector"
    /\ heap # <<>>
    /\ wrapped.n < MaxWraps
    /\ \E univ \in Blocks(heap), rotation \in Rotations, name \in {"NE", "SW"} :
          /\ heap' = rotate_universe(heap, univ, rotation, name)
          /\ wrapped' = [n |-> wrapped.n + 1, univ |-> univ, rotation |-> rotation,
                         name |-> name, result |-> Len(heap')]
    /\ UNCHANGED ReflectorFrame

(***************************************************************************)
(* core_geometry, lines 120-151: the root universe.  Radii are in units of *)
(* 0.005 cm (INCHES is 508 of them) and heights in units of 1e-4 cm.  A    *)
(* surface of the registry carries its name and its boundary_type, which   *)
(* is 'transmission' unless the constructor is given another.              *)
(***************************************************************************)
\* core_barrel_IR = 74*INCHES/2
core_barrel_IR == 18796

\* core_barrel_OR = 78*INCHES/2
core_barrel_OR == 19812

\* rpv_IR = 96.5*INCHES/2
rpv_IR == 24511

\* rpv_OR = 105*INCHES/2
rpv_OR == 26670

lowest_extent == 0

\* top_upper_nozzle + 20.0 = 283.232
highest_extent == 2832320

Registered(s, name, boundary_type) ==
    [typ |-> s.typ, num |-> s.num, den |-> s.den, name |-> name,
     boundary_type |-> boundary_type]

surfs_TransmissionMutant(key) ==
    CASE key = "core barrel IR" ->
            Registered(ZCylinder(core_barrel_IR * core_barrel_IR, 1), key, "transmission")
      [] key = "core barrel OR" ->
            Registered(ZCylinder(core_barrel_OR * core_barrel_OR, 1), key, "transmission")
      [] key = "RPV IR" ->
            Registered(ZCylinder(rpv_IR * rpv_IR, 1), key, "transmission")
      [] key = "RPV OR" ->
            Registered(ZCylinder(rpv_OR * rpv_OR, 1), key, "transmission")
      [] key = "upper bound" ->
            Registered(ZPlane(highest_extent, 1), key, "vacuum")
      [] key = "lower bound" ->
            Registered(ZPlane(lowest_extent, 1), key, "vacuum")

\* the entries of the surface registry that core_geometry reads
surfs(key) ==
    CASE key = "core barrel IR" ->
            Registered(ZCylinder(core_barrel_IR * core_barrel_IR, 1), key, "transmission")
      [] key = "core barrel OR" ->
            Registered(ZCylinder(core_barrel_OR * core_barrel_OR, 1), key, "transmission")
      [] key = "RPV IR" ->
            Registered(ZCylinder(rpv_IR * rpv_IR, 1), key, "transmission")
      [] key = "RPV OR" ->
            Registered(ZCylinder(rpv_OR * rpv_OR, 1), key, "vacuum")
      [] key = "upper bound" ->
            Registered(ZPlane(highest_extent, 1), key, "vacuum")
      [] key = "lower bound" ->
            Registered(ZPlane(lowest_extent, 1), key, "vacuum")

RootSurfaceKeys ==
    {"core barrel IR", "core barrel OR", "RPV IR", "RPV OR", "upper bound", "lower bound"}

\* the four cells added to root_univ, in order
root_cells ==
    << Cell("Main core",
            <<Neg(surfs("core barrel IR")), Pos(surfs("lower bound")),
              Neg(surfs("upper bound"))>>),
       Cell("SS",
            <<Pos(surfs("core barrel IR")), Neg(surfs("core barrel OR")),
              Pos(surfs("lower bound")), Neg(surfs("upper bound"))>>),
       Cell("H2O",
            <<Pos(surfs("core barrel OR")), Neg(surfs("RPV IR")),
              Pos(surfs("lower bound")), Neg(surfs("upper bound"))>>),
       Cell("CS",
            <<Pos(surfs("RPV IR")), Neg(surfs("RPV OR")),
              Pos(surfs("lower bound")), Neg(surfs("upper bound"))>>) >>

\* return openmc.Geometry(root_univ)
RootUniverse ==
    /\ unit = "root"
    /\ call = NoCall
    /\ call' = [NoCall EXCEPT !.fn = "core_geometry"]
    /\ ret' = Universe(root_cells)
    /\ UNCHANGED ComposeFrame

(***************************************************************************)
(* The fitness functions FIT of the optimisation scripts.  An evaluation   *)
(* is one call of FIT; with ncores > 1 the optimizer runs evaluations in   *)
(* parallel worker processes, each with its own working directory, on one  *)
(* file system.  A fitness value is hi*1e5 + micro*1e-6.                   *)
(***************************************************************************)
\* most FIT calls of one run
MaxEvals == 2

\* the values random.randint(0, 1e8) can return are 1..MaxRand
MaxRand == 2

Scripts ==
    {"assembly_final", "pin_cell_test", "model-build-core-fresh",
     "paper-model-build-core-fresh"}

\* the scripts whose FIT works in a scratch directory subfold_<randnum>
ScratchScripts == Scripts \ {"assembly_final"}

\* assembly_final.py: total_pin = 121
total_pin == 121

\* assembly_final.py: fuel_limit = 61
fuel_limit == 61

Evaluations == 1..MaxEvals

NoResult == [given |-> FALSE, hi |-> 0, micro |-> 0]

Value(hi, micro) == [given |-> TRUE, hi |-> hi, micro |-> micro]

NoEval ==
    [pc |-> "idle", randnum |-> 0, voids |-> 0, k |-> 0, return_val |-> 0,
     failed |-> FALSE, made |-> FALSE, exc |-> "", result |-> NoResult]

NoFiles == [dirs |-> {}, files |-> {}]

\* k-effective values the solver reports, in units of 1e-6
KValues == {999996, 1234565, 1234575}

\* numbers of zero entries of the candidates tried in assembly_final.py
VoidCounts == {0, 59, 60, 61, 121}

\* a candidate of 121 entries whose first nz entries are 0 (void pin)
Candidate(nz) == [i \in 1..total_pin |-> IF i <= nz THEN 0 ELSE 1]

Abs(x) == IF x < 0 THEN -x ELSE x

\* np.round(v, 5) of v = k*1e-6: to the nearest 1e-5, a tie to the even one
Round5(k) ==
    10 * (IF k % 10 > 5 \/ (k % 10 = 5 /\ (k \div 10) % 2 = 1)
          THEN k \div 10 + 1
          ELSE k \div 10)

\* list_x of FIT: the row idx//11 of every entry that is 0, in order
list_x(arr) ==
    LET idxs == SelectSeq([i \in 1..Len(arr) |-> i], LAMBDA i : arr[i] = 0)
    IN  [j \in 1..Len(idxs) |-> (idxs[j] - 1) \div 11]

\* list_y of FIT: the column idx%11 of every entry that is 0, in order
list_y(arr) ==
    LET idxs == SelectSeq([i \in 1..Len(arr) |-> i], LAMBDA i : arr[i] = 0)
    IN  [j \in 1..Len(idxs) |-> (idxs[j] - 1) % 11]

(***************************************************************************)
(* The lattice pwr_assembly builds for the void positions FIT passes       *)
(* (assembly_final.py lines 92-94).                                        *)
(***************************************************************************)
PinPositions == (0..10) \X (0..10)

\* np.tile(fuel_pin_universe, (11, 11)), then
\* assembly.universes[void_loc_x, void_loc_y] = void_universe; np.array([])
\* of an empty list is an array of floats, which is no index
pwr_universes(void_loc_x, void_loc_y) ==
    IF Len(void_loc_x) = 0
    THEN [exc |-> "IndexError", universes |-> [p \in PinPositions |-> "Fuel Pin"]]
    ELSE [exc |-> "",
          universes |-> [p \in PinPositions |->
                            IF \E j \in 1..Len(void_loc_x) :
                                  p = <<void_loc_x[j], void_loc_y[j]>>
                            THEN "void pin" ELSE "Fuel Pin"]]

return_val_StrictMutant(k, lx) ==
    IF total_pin - Len(lx) >= fuel_limit
    THEN Value(-1, Round5(k))
    ELSE Value(0, Round5(k))

\* assembly_final.py lines 143-156: the value FIT returns after a solver run
\* that gave k: penalty = -1e5 is added when used_fuel > fuel_limit
return_val(k, lx) ==
    IF total_pin - Len(lx) > fuel_limit
    THEN Value(-1, Round5(k))
    ELSE Value(0, Round5(k))

\* abs(k_combined_nom - 1.10) in pin_cell_test.py, abs(k_combined_nom - 1.0)
\* in the SMR scripts
Target(s) == IF s = "pin_cell_test" THEN 1100000 ELSE 1000000

\* an exception has left FIT: the optimizer's run ends with it
Aborted == \E e \in Evaluations : evals[e].pc = "raised"

InFlight(e) == evals[e].pc \in {"cwd", "ran", "read"}

EvalFrame == <<unit, call, ret, builder, universes, log, override, raised, heap,
               wrapped, assembly, probe, script, BuildVars, catalog, names>>

\* the solver run or the reading of its result fails in evaluation e: the
\* try/except of assembly_final.py returns 0.0; the other scripts have no
\* handler and the exception leaves FIT
Fail(e, exc) ==
    IF script = "assembly_final"
    THEN [evals EXCEPT ![e].pc = "returned", ![e].failed = TRUE,
                       ![e].result = Value(0, 0)]
    ELSE [evals EXCEPT ![e].pc = "raised", ![e].failed = TRUE, ![e].exc = exc]

\* lines 105-110 of pin_cell_test.py: randnum, os.makedirs, os.chdir.
\* model-build-core-fresh.py calls os.makedirs without exist_ok=True.
MakeScratch ==
    /\ unit = "evaluate"
    /\ script \in ScratchScripts
    /\ ~Aborted
    /\ \E e \in Evaluations, n \in 1..MaxRand :
          /\ evals[e].pc = "idle"
          /\ IF n \in fs.dirs /\ script = "model-build-core-fresh"
             THEN /\ evals' = [evals EXCEPT ![e].pc = "raised", ![e].randnum = n,
                                            ![e].exc = "FileExistsError"]
                  /\ UNCHANGED fs
             ELSE /\ evals' = [evals EXCEPT ![e].pc = "cwd", ![e].randnum = n,
                                            ![e].made = n \notin fs.dirs]
                  /\ fs' = [fs EXCEPT !.dirs = @ \cup {n}]
    /\ UNCHANGED EvalFrame

\* assembly_final.py lines 128-136: the void locations and pwr_assembly; the
\* optimizer runs with ncores=1, one evaluation after the other.  An empty
\* np.array([]) is of float type and is refused as an index array.
BuildAssembly ==
    /\ unit = "evaluate"
    /\ script = "assembly_final"
    /\ ~Aborted
    /\ \A o \in Evaluations : ~InFlight(o)
    /\ \E e \in Evaluations, nz \in VoidCounts :
          /\ evals[e].pc = "idle"
          /\ evals' = IF pwr_universes(list_x(Candidate(nz)), list_y(Candidate(nz))).exc # ""
                      THEN [evals EXCEPT ![e].pc = "raised", ![e].voids = nz,
                                         ![e].exc = "IndexError"]
                      ELSE [evals EXCEPT ![e].pc = "cwd", ![e].voids = nz]
    /\ UNCHANGED fs
    /\ UNCHANGED EvalFrame

\* model.run(...): the solver writes its statepoint into the working directory
RunSolver ==
    /\ unit = "evaluate"
    /\ \E e \in Evaluations, ok \in BOOLEAN, k \in KValues :
          /\ evals[e].pc = "cwd"
          /\ IF ok /\ (script \in ScratchScripts => evals[e].randnum \in fs.dirs)
             THEN /\ evals' = [evals EXCEPT ![e].pc = "ran", ![e].k = k]
                  /\ fs' = IF script \in ScratchScripts
                           THEN [fs EXCEPT !.files = @ \cup {<<evals[e].randnum, e>>}]
                           ELSE fs
             ELSE /\ evals' = Fail(e, "RuntimeError")
                  /\ UNCHANGED fs
    /\ UNCHANGED EvalFrame

\* openmc.StatePoint(result_r) and the fitness computed from k_combined
ReadResult ==
    /\ unit = "evaluate"
    /\ \E e \in Evaluations, ok \in BOOLEAN :
          /\ evals[e].pc = "ran"
          /\ evals' =
               IF ok /\ (script \in ScratchScripts
                            => <<evals[e].randnum, e>> \in fs.files)
               THEN IF script = "assembly_final"
                    THEN [evals EXCEPT
                            ![e].pc = "returned",
                            ![e].result = return_val(evals[e].k,
                                                     list_x(Candidate(evals[e].voids)))]
                    ELSE [evals EXCEPT
                            ![e].pc = "read",
                            ![e].return_val = Abs(evals[e].k - Target(script))]
               ELSE Fail(e, "OSError")
    /\ UNCHANGED fs
    /\ UNCHANGED EvalFrame

\* shutil.rmtree(pathname); return return_val
RemoveScratch ==
    /\ unit = "evaluate"
    /\ \E e \in Evaluations :
          /\ evals[e].pc = "read"
          /\ IF evals[e].randnum \in fs.dirs
             THEN /\ fs' = [dirs  |-> fs.dirs \ {evals[e].randnum},
                            files |-> {f \in fs.files : f[1] # evals[e].randnum}]
                  /\ evals' = [evals EXCEPT ![e].pc = "returned",
                                            ![e].result = Value(0, evals[e].return_val)]
             ELSE /\ evals' = [evals EXCEPT ![e].pc = "raised",
                                            ![e].exc = "FileNotFoundError"]
                  /\ UNCHANGED fs
    /\ UNCHANGED EvalFrame

(***************************************************************************)
(* Concurrent and successive geometry builds.  core_geometry calls         *)
(* assembly_universes, which calls pin_universes; pin_universes first      *)
(* stores the planes of banks D, C, B, A in the module-level dictionary    *)
(* surfs (lines 169-187) and later looks them up again when it stacks the  *)
(* control rod pins of each bank (lines 406-495); each of the two parts is  *)
(* taken as one step.  Every interpreter has one surfs; builds in one      *)
(* interpreter are its threads or its successive calls, builds in          *)
(* different interpreters are separate processes.                          *)
(* Heights are in units of 1e-3 cm.                                        *)
(***************************************************************************)
\* most core_geometry calls of a run
MaxBuilds == 3

\* most core_geometry calls running at the same time
MaxParallel == 2

\* pins.py: bank_top = 786.348
bank_top == 786348

\* pins.py: bank_bot = 405.713
bank_bot == 405713

Builds == 1..MaxBuilds

Interpreters == {1, 2}

\* the insertion depths tried, for banks A, B, C, D
CRVectors == {<<0, 0, 0, 0>>, <<0, 100000, 0, 0>>, <<359634, 100000, 200000, 300000>>}

\* the banks in the order their planes are stored, with their index in CRs
StoreOrder == <<"D", "C", "B", "A">>

BankNames == {"A", "B", "C", "D"}

\* surfaces.py lines 230-234: 'bankS{} top' and 'bankS{} bot' for A..E
SafetyBanks == {"SA", "SB", "SC", "SD", "SE"}

\* surfaces.py: step248H = 269.122, in units of 1e-5 cm
step248H == 26912200

\* surfaces.py: step_width = 1.58173, in units of 1e-5 cm
step_width == 158173

CRIndex_ReversedMutant(b) == CASE b = "A" -> 4 [] b = "B" -> 3 [] b = "C" -> 2 [] b = "D" -> 1

CRIndex(b) == CASE b = "A" -> 1 [] b = "B" -> 2 [] b = "C" -> 3 [] b = "D" -> 4

\* surfs['bank{b} top'] and surfs['bank{b} bot'] are not in surfs when the
\* module is imported (their definitions in surfaces.py are commented out);
\* by is the build that created the ZPlane objects, 0 when the keys are absent
NoPlanes == [top |-> 0, bot |-> 0, by |-> 0]

\* the planes of a safety bank, which the import creates and no build does;
\* their heights are in units of 1e-5 cm
SafetyPlanes == [top |-> step248H + step_width * 228, bot |-> step248H, by |-> 0]

ImportedSurfs == [b \in BankNames \cup SafetyBanks |->
                    IF b \in BankNames THEN NoPlanes ELSE SafetyPlanes]

NoBuild ==
    [pc |-> 0, CRs |-> <<0, 0, 0, 0>>, interp |-> 0, overlapped |-> FALSE,
     before |-> ImportedSurfs, after |-> ImportedSurfs,
     planes |-> [b \in BankNames \cup SafetyBanks |-> NoPlanes]]

Running(w) == workers[w].pc \in 1..2

Finished(w) == workers[w].pc = 3

BuildFrame == <<unit, call, ret, builder, universes, log, override, raised, heap,
                wrapped, assembly, probe, EvalVars, catalog, names>>

\* the two ZPlane objects build w makes for bank b
BankPlanes_SetDefaultMutant(old, w, CRs, b) ==
    IF old.by # 0
    THEN old
    ELSE [top |-> bank_top - CRs[CRIndex(b)], bot |-> bank_bot - CRs[CRIndex(b)], by |-> w]

\* surfs['bankX top'] = openmc.ZPlane(z0=bank_top - CRs[i]) and
\* surfs['bankX bot'] = openmc.ZPlane(z0=bank_bot - CRs[i])
BankPlanes(old, w, CRs, b) ==
    [top |-> bank_top - CRs[CRIndex(b)], bot |-> bank_bot - CRs[CRIndex(b)], by |-> w]

\* core_geometry(num_rings, num_axial, depleted, CRs) is called
StartBuild ==
    /\ unit = "build"
    /\ Cardinality({w \in Builds : Running(w)}) < MaxParallel
    /\ \E w \in Builds, CRs \in CRVectors, i \in Interpreters :
          /\ workers[w].pc = 0
          /\ \A v \in Builds : v < w => workers[v].pc # 0
          /\ workers' =
               [v \in Builds |->
                  IF v = w
                  THEN [workers[w] EXCEPT
                          !.pc = 1, !.CRs = CRs, !.interp = i, !.before = registry[i],
                          !.overlapped = \E o \in Builds :
                                            Running(o) /\ workers[o].interp = i]
                  ELSE IF Running(v) /\ workers[v].interp = i
                       THEN [workers[v] EXCEPT !.overlapped = TRUE]
                       ELSE workers[v]]
    /\ UNCHANGED registry
    /\ UNCHANGED BuildFrame

\* the registry after the statements of lines 169-187, which store the planes
\* of the banks in StoreOrder
RECURSIVE StoreAll(_, _, _, _)
StoreAll(surfs_i, w, CRs, banks) ==
    IF Len(banks) = 0
    THEN surfs_i
    ELSE StoreAll([surfs_i EXCEPT ![banks[1]] = BankPlanes(surfs_i[banks[1]], w, CRs, banks[1])],
                  w, CRs, Tail(banks))

\* pins.py lines 169-187
StoreBankPlanes ==
    /\ unit = "build"
    /\ \E w \in Builds :
          /\ workers[w].pc = 1
          /\ registry' = [registry EXCEPT
                            ![workers[w].interp] = StoreAll(@, w, workers[w].CRs, StoreOrder)]
          /\ workers' = [workers EXCEPT ![w].pc = 2]
    /\ UNCHANGED BuildFrame

\* pins.py lines 406-495: the stacks of each bank b are made with
\* surfs['bank{} bot'.format(b)] and surfs['bank{} top'.format(b)]; then the
\* build returns, and surfs is as it leaves it
StackBanks ==
    /\ unit = "build"
    /\ \E w \in Builds :
          /\ workers[w].pc = 2
          /\ workers' = [workers EXCEPT
                            ![w].pc = 3,
                            ![w].planes = [b \in BankNames \cup SafetyBanks |->
                                             registry[workers[w].interp][b]],
                            ![w].after = registry[workers[w].interp]]
    /\ UNCHANGED registry
    /\ UNCHANGED BuildFrame

(***************************************************************************)
(* pin_universes, the guide tube and control rod part of the catalog       *)
(* (pins.py lines 194-303 and 358-495).  univs maps a key to the identity  *)
(* of the universe bound to it, 0 while the key is absent; objs[id] is the *)
(* universe with identity id, with the identities of the universes that   *)
(* fill its cells.  A cell filled by a material adds nothing to the graph. *)
(* The heights of the planes take no part in it either: only their number  *)
(* decides how many of the universes listed become cells.                  *)
(***************************************************************************)
Step(fn, key, nsurfs, fills) == [fn |-> fn, key |-> key, nsurfs |-> nsurfs, fills |-> fills]

\* a universe whose cells are all filled by materials (make_pin, lines 12-70,
\* and the water pin of lines 193-195)
Pin(key) == Step("make_pin", key, 0, <<>>)

\* the 20 planes of stack_surfs, lines 234-255
stack_surfs == [i \in 1..20 |-> ZPlane(i, 1)]

\* lines 198-227
GuideTubePins ==
    <<Step("Universe", "water pin", 0, <<>>),
      Pin("GT empty"), Pin("GT empty grid (bottom)"),
      Pin("GT empty grid (intermediate)"), Pin("GT empty nozzle"),
      Pin("GTd empty"), Pin("GTd empty grid (bottom)"),
      Pin("GTd empty grid (intermediate)"), Pin("GTd empty nozzle")>>

\* lines 257-279: the key 'GT empty' is bound again, to a stack whose
\* universes list names 'GT empty'
GTEmptyStack ==
    Step("make_stack", "GT empty", Len(stack_surfs),
         <<"water pin", "water pin", "water pin", "GTd empty", "GTd empty",
           "GTd empty grid (bottom)", "GTd empty", "GT empty",
           "GT empty grid (intermediate)", "GT empty",
           "GT empty grid (intermediate)", "GT empty",
           "GT empty grid (intermediate)", "GT empty", "GT empty",
           "GT empty grid (intermediate)", "GT empty", "GT empty", "GT empty",
           "water pin", "water pin">>)

\* lines 281-303
GTEmptyInstrStack ==
    Step("make_stack", "GT empty instr", Len(stack_surfs),
         <<"water pin", "water pin", "water pin", "GT empty", "GT empty",
           "GT empty grid (bottom)", "GT empty", "GT empty",
           "GT empty grid (intermediate)", "GT empty",
           "GT empty grid (intermediate)", "GT empty",
           "GT empty grid (intermediate)", "GT empty", "GT empty",
           "GT empty grid (intermediate)", "GT empty", "GT empty", "GT empty",
           "water pin", "water pin">>)

\* lines 358-399
ControlRodPins ==
    <<Pin("CR"), Pin("CR grid (bottom)"), Pin("CR grid (intermediate)"),
      Pin("CR nozzle"), Pin("CR blank"), Pin("CR blank grid (bottom)"),
      Pin("CR blank grid (intermediate)"), Pin("CR blank nozzle"),
      Pin("CR blank bare"), Pin("CR bare")>>

\* line 406
StackedBanks == <<"A", "B", "C", "D", "SA", "SB", "SC", "SD", "SE">>

Dummy(b) == "GT CR bank " \o b \o " dummy"

\* lines 408-495, one pass of the loop: five stacks between 'bottom FR',
\* 'dashpot top' and the two planes of the bank, then their combination
BankStacks(b) ==
    <<Step("make_stack", Dummy(b), 4,
           <<"water pin", "GTd empty", "GT empty", "CR", "CR blank">>),
      Step("make_stack", Dummy(b) \o " grid (bottom)", 4,
           <<"water pin", "GTd empty grid (bottom)", "GT empty grid (bottom)",
             "CR grid (bottom)", "CR blank grid (bottom)">>),
      Step("make_stack", Dummy(b) \o " grid (intermediate)", 4,
           <<"water pin", "GTd empty grid (intermediate)",
             "GT empty grid (intermediate)", "CR grid (intermediate)",
             "CR blank grid (intermediate)">>),
      Step("make_stack", Dummy(b) \o " nozzle", 4,
           <<"water pin", "GTd empty nozzle", "GT empty nozzle", "CR nozzle",
             "CR blank nozzle">>),
      Step("make_stack", Dummy(b) \o " bare", 4,
           <<"water pin", "GTd empty nozzle", "GT empty nozzle", "CR bare",
             "CR blank bare">>),
      Step("make_stack", "GT CR bank " \o b, Len(stack_surfs),
           <<"water pin", Dummy(b) \o " nozzle", Dummy(b) \o " nozzle",
             Dummy(b), Dummy(b), Dummy(b) \o " grid (bottom)", Dummy(b), Dummy(b),
             Dummy(b) \o " grid (intermediate)", Dummy(b),
             Dummy(b) \o " grid (intermediate)", Dummy(b),
             Dummy(b) \o " grid (intermediate)", Dummy(b), Dummy(b),
             Dummy(b) \o " grid (bottom)", Dummy(b), Dummy(b), Dummy(b),
             Dummy(b) \o " bare", Dummy(b) \o " bare">>)>>

RECURSIVE AllBankStacks(_)
AllBankStacks(banks) ==
    IF banks = <<>> THEN <<>>
    ELSE BankStacks(Head(banks)) \o AllBankStacks(Tail(banks))

\* the statements of pin_universes that bind a guide tube or control rod key
CatalogProgram ==
    GuideTubePins \o <<GTEmptyStack, GTEmptyInstrStack>> \o ControlRodPins
    \o AllBankStacks(StackedBanks)

CatalogKeys == {CatalogProgram[i].key : i \in 1..Len(CatalogProgram)}

NoCatalog == [pc |-> 0, exc |-> "", univs |-> [key \in CatalogKeys |-> 0], objs |-> <<>>]

\* the universes a statement's call returns a universe of: one cell per pair
\* of zip(subdivide(surfaces), universes), filled by the universe the key
\* is bound to when the argument list is evaluated
Filled(univs, step) ==
    IF step.fn # "make_stack" THEN <<>>
    ELSE LET made == make_stack([i \in 1..step.nsurfs |-> ZPlane(i, 1)],
                                [i \in 1..Len(step.fills) |-> univs[step.fills[i]]])
         IN  [i \in 1..Len(made.cells) |-> made.cells[i].fill]

Bind_TargetFirstMutant(c, step) ==
    LET id    == Len(c.objs) + 1
        bound == [c.univs EXCEPT ![step.key] = id]
    IN  [c EXCEPT !.pc = c.pc + 1,
                  !.objs = Append(c.objs, [name |-> step.key,
                                           fills |-> Filled(bound, step)]),
                  !.univs = bound]

\* univs[key] = f(..., universes=[univs[k1], ...]): the right-hand side is
\* evaluated first, with the bindings as they are, and a key not bound yet
\* raises KeyError; then the key is bound to the new universe
Bind(c, step) ==
    IF \E i \in 1..Len(step.fills) : c.univs[step.fills[i]] = 0
    THEN [c EXCEPT !.exc = "KeyError"]
    ELSE [c EXCEPT !.pc = c.pc + 1,
                   !.objs = Append(c.objs, [name |-> step.key,
                                            fills |-> Filled(c.univs, step)]),
                   !.univs[step.key] = Len(c.objs) + 1]

CatalogFrame == <<unit, call, ret, builder, universes, log, override, raised, heap,
                  wrapped, assembly, probe, EvalVars, BuildVars, names>>

\* the next statement of pin_universes
BindUniverse ==
    /\ unit = "catalog"
    /\ catalog.exc = ""
    /\ catalog.pc < Len(CatalogProgram)
    /\ catalog' = Bind(catalog, CatalogProgram[catalog.pc + 1])
    /\ UNCHANGED CatalogFrame

(***************************************************************************)
(* Successive rotations.  rotate_universe accepts any universe, also one   *)
(* it returned itself; the orientation of a wrapper is the product of the  *)
(* rotation matrices of the cells on the way down to the block.  For the   *)
(* multiples of 90 degrees the sines and cosines are the integers -1, 0    *)
(* and 1, and the matrices are exact.                                      *)
(***************************************************************************)
Cos90(deg) ==
    CASE deg % 360 = 0   -> 1
      [] deg % 360 = 90  -> 0
      [] deg % 360 = 180 -> -1
      [] deg % 360 = 270 -> 0

Sin90(deg) ==
    CASE deg % 360 = 0   -> 0
      [] deg % 360 = 90  -> 1
      [] deg % 360 = 180 -> 0
      [] deg % 360 = 270 -> -1

Identity == <<  <<1, 0, 0>>, <<0, 1, 0>>, <<0, 0, 1>>  >>

MatMul(a, b) ==
    [i \in 1..3 |-> [j \in 1..3 |->
        a[i][1] * b[1][j] + a[i][2] * b[2][j] + a[i][3] * b[3][j]]]

\* cell.rotation = (phi, theta, psi): the matrix openmc derives from the
\* angles about x, y and z, each taken negative
RotationMatrix(rotation) ==
    LET c3 == Cos90(0 - rotation[1])
        s3 == Sin90(0 - rotation[1])
        c2 == Cos90(0 - rotation[2])
        s2 == Sin90(0 - rotation[2])
        c1 == Cos90(0 - rotation[3])
        s1 == Sin90(0 - rotation[3])
    IN  <<  <<c1 * c2, c1 * s2 * s3 - c3 * s1, s1 * s3 + c1 * c3 * s2>>,
            <<c2 * s1, c1 * c3 + s1 * s2 * s3, c3 * s1 * s2 - c1 * s3>>,
            <<0 - s2, c2 * s3, c2 * c3>>  >>

\* a universe rotate_universe returned: one cell, filled by a universe
IsWrapper(h, id) == h[id].cells[1].fill.univ # 0

\* a point is carried through the rotation of the outer cell first
RECURSIVE Orientation(_, _)
Orientation(h, id) ==
    IF ~IsWrapper(h, id) THEN Identity
    ELSE MatMul(Orientation(h, h[id].cells[1].fill.univ),
                RotationMatrix(h[id].cells[1].rotation))

\* rotate_universe applied to one of the blocks and then, again and again,
\* to the universe it returned last
RotateAgain ==
    /\ unit = "turn"
    /\ heap # <<>>
    /\ wrapped.n < MaxTurns
    /\ \E univ \in (IF wrapped.n = 0 THEN Blocks(heap) ELSE {Len(heap)}),
          rotation \in Rotations :
          /\ heap' = rotate_universe(heap, univ, rotation, "SW")
          /\ wrapped' = [n |-> wrapped.n + 1, univ |-> univ, rotation |-> rotation,
                         name |-> "SW", result |-> Len(heap')]
    /\ UNCHANGED ReflectorFrame

(***************************************************************************)
(* The control rod pin cells of pin_universes (pins.py lines 357-402), as  *)
(* the calls of make_pin are written.  Radii are in units of INCHES/2000.  *)
(***************************************************************************)
guide_tube_IR == 450

guide_tube_OR == 482

boron_carbide_OR == 333

control_rod_IR == 344

control_rod_OR == 381

\* surfs[key] for the cylinders of the control rod pins (surfaces.py 139-152)
PinSurface(key) ==
    CASE key = "GT IR" -> ZCylinder(guide_tube_IR * guide_tube_IR, 1)
      [] key = "GT OR" -> ZCylinder(guide_tube_OR * guide_tube_OR, 1)
      [] key = "CP OR" -> ZCylinder(boron_carbide_OR * boron_carbide_OR, 1)
      [] key = "CR IR" -> ZCylinder(control_rod_IR * control_rod_IR, 1)
      [] key = "CR OR" -> ZCylinder(control_rod_OR * control_rod_OR, 1)

PinCall(key, surfaces, materials, grid) ==
    [key |-> key, surfaces |-> [i \in 1..Len(surfaces) |-> PinSurface(surfaces[i])],
     materials |-> materials, grid |-> grid]

\* lines 359, 363, 368: four cylinders
InGuideTube == <<"CP OR", "CR IR", "GT IR", "GT OR">>

\* lines 379, 383, 388: five cylinders
CladInGuideTube == <<"CP OR", "CR IR", "CR OR", "GT IR", "GT OR">>

\* lines 374, 393, 397, 401
Bare == <<"CP OR", "CR IR", "CR OR">>

ControlRodCalls ==
    <<PinCall("CR", InGuideTube, <<"AIC", "Air", "SS", "H2O", "Zr", "H2O">>, ""),
      PinCall("CR grid (bottom)", InGuideTube,
              <<"AIC", "Air", "SS", "H2O", "Zr", "H2O">>, "bottom"),
      PinCall("CR grid (intermediate)", InGuideTube,
              <<"AIC", "Air", "SS", "H2O", "Zr", "H2O">>, "intermediate"),
      PinCall("CR nozzle", Bare, <<"AIC", "Air", "SS", "H2O">>, ""),
      PinCall("CR blank", CladInGuideTube,
              <<"SS", "Air", "SS", "H2O", "Zr", "H2O">>, ""),
      PinCall("CR blank grid (bottom)", CladInGuideTube,
              <<"SS", "Air", "SS", "H2O", "Zr", "H2O">>, "bottom"),
      PinCall("CR blank grid (intermediate)", CladInGuideTube,
              <<"SS", "Air", "SS", "H2O", "Zr", "H2O">>, "intermediate"),
      PinCall("CR blank nozzle", Bare, <<"SS", "Air", "SS", "H2O">>, ""),
      PinCall("CR blank bare", Bare, <<"SS", "Air", "SS", "H2O">>, ""),
      PinCall("CR bare", Bare, <<"AIC", "Air", "SS", "H2O">>, "")>>

\* one of the calls univs[key] = make_pin(key, surfaces, materials, grid)
MakeControlRodPin ==
    /\ unit = "pins"
    /\ call = NoCall
    /\ \E n \in 1..Len(ControlRodCalls) :
          LET c == ControlRodCalls[n]
          IN  /\ call' = [NoCall EXCEPT !.fn = "make_pin", !.surfaces = c.surfaces,
                                        !.fills = c.materials, !.grid = c.grid]
              /\ ret' = make_pin(c.surfaces, c.materials, c.grid)
    /\ UNCHANGED ComposeFrame

(***************************************************************************)
(* The ordering planes of one control rod bank stack (pins.py 164-187 and  *)
(* 406-418) in the arithmetic of the code.  A Python float is the double   *)
(* nearest to its literal: Float(n, e) is n/1000 + e/(1000 * 2^47), with e *)
(* the distance of the double from the decimal n/1000.  For the insertions *)
(* below the differences bank_top - x and bank_bot - x are doubles         *)
(* themselves, so that the subtraction does not round.                     *)
(***************************************************************************)
Float_DecimalMutant(n, e) == [n |-> n, e |-> 0]

Float(n, e) == [n |-> n, e |-> e]

\* a - b, both parts
FloatSub(a, b) == [n |-> a.n - b.n, e |-> a.e - b.e]

\* a < b: the parts e are far smaller than one unit of n
FloatLess(a, b) == a.n < b.n \/ (a.n = b.n /\ a.e < b.e)

\* surfaces.py line 92: bottom_fuel_rod = 20 + 5 + 4.0*INCHES, in 1e-3 cm
bottom_fuel_rod == 35160

\* surfaces.py line 115: step0H = 46.079
step0H == 46079

\* model-build-core-fresh.py line 95: the upper bound 359.634 of every CRs[i]
UpperBound == 359634

\* the bounds of line 95, a value between them, and the double next below
\* the upper bound
Insertions ==
    {Float(0, 0), Float(100000, 0), Float(UpperBound, 2048), Float(UpperBound, -5952)}

\* surfs['bottom FR'], surfs['dashpot top'], surfs['bank{} bot'], surfs['bank{} top']
\* of the stack 'GT CR bank {} dummy' for a bank inserted by x
bank_stack_surfs(x) ==
    <<Float(bottom_fuel_rod, -480), Float(step0H, 88),
      FloatSub(Float(bank_bot, 3136), x), FloatSub(Float(bank_top, -6144), x)>>

\* pin_universes called with CRs: the stack of bank b, between its planes
StackBank ==
    /\ unit = "planes"
    /\ call = NoCall
    /\ \E CRs \in [1..4 -> Insertions], b \in 1..4 :
          /\ call' = [NoCall EXCEPT !.fn = "pin_universes", !.fills = CRs,
                                    !.num_axial = b,
                                    !.surfaces = bank_stack_surfs(CRs[b])]
          /\ ret' = make_stack(bank_stack_surfs(CRs[b]),
                               <<"water pin", "GTd empty", "GT empty", "CR", "CR blank">>)
    /\ UNCHANGED ComposeFrame

(***************************************************************************)
(* make_assembly (assemblies.py lines 10-118): the lattice in its bounding *)
(* cell, the water around the assembly and the eleven axial cells of the   *)
(* grid sleeve.  Sides are in units of 1e-5 cm, heights in 1e-4 cm.        *)
(***************************************************************************)
\* surfaces.py line 74: grid_strap_side = 21.47270
grid_strap_side == 2147270

\* surfaces.py line 68: spacer_height = 1.750*INCHES
spacer_height == 44450

\* surfaces.py line 42: fuel_rod_length = 85.00*INCHES
fuel_rod_length == 2159000

\* surfaces.py lines 107-109
first_grid_bot == 10 * bottom_fuel_rod + 60000

last_grid_top == 10 * bottom_fuel_rod + fuel_rod_length - 20000

last_grid_bot == last_grid_top - spacer_height

\* grid_bottom = np.linspace(first_grid_bot, last_grid_bot, 5), entry i of 1..5
grid_bottom(i) == ZPlane(4 * first_grid_bot + (i - 1) * (last_grid_bot - first_grid_bot), 4)

\* grid_top = grid_bottom + spacer_height
grid_top(i) == ZPlane(grid_bottom(i).num + 4 * spacer_height, 4)

\* surfs['lat grid box inner'] and surfs['lat grid box outer'], by half side
lat_grid_box_inner == RectPrism((17 * pin_pitch) \div 2)

lat_grid_box_outer == RectPrism(grid_strap_side \div 2)

lat_grid_box_OuterOnlyMutant == <<Inside(lat_grid_box_outer)>>

\* line 36: surfs['lat grid box outer'] & ~surfs['lat grid box inner']
lat_grid_box == <<Inside(lat_grid_box_outer), Complement(lat_grid_box_inner)>>

\* the sleeve of grid 1 is Inconel, the others are Zircaloy
Sleeve(i) == IF i = 1 THEN "In" ELSE "Zr"

\* the cells in the order they are added; the first is filled by the lattice
make_assembly(name, univs) ==
    Universe(<<Cell(name, <<Inside(lat_grid_box_inner)>>),
               Cell("H2O", <<Complement(lat_grid_box_outer)>>),
               Cell("H2O", lat_grid_box \o <<Neg(grid_bottom(1))>>)>>
             \o [n \in 1..9 |->
                   IF n % 2 = 1
                   THEN Cell(Sleeve((n + 1) \div 2),
                             lat_grid_box \o <<Pos(grid_bottom((n + 1) \div 2)),
                                               Neg(grid_top((n + 1) \div 2))>>)
                   ELSE Cell("H2O",
                             lat_grid_box \o <<Pos(grid_top(n \div 2)),
                                               Neg(grid_bottom(n \div 2 + 1))>>)]
             \o <<Cell("H2O", lat_grid_box \o <<Pos(grid_top(5))>>)>>)

\* univs[key] = make_assembly(name, universes), for the array just filled
MakeAssembly ==
    /\ unit = "template"
    /\ assembly # NoAssembly
    /\ call = NoCall
    /\ call' = [NoCall EXCEPT !.fn = "make_assembly"]
    /\ ret' = make_assembly(assembly.key, assembly.universes)
    /\ UNCHANGED ComposeFrame

(***************************************************************************)
(* The lattices in their bounding cells: the core lattice in the cylinder  *)
(* 'core barrel IR' (core.py 122-127), the assembly lattice in the inner   *)
(* grid box (assemblies.py 40-44) and the 11x11 lattice of pwr_assembly in *)
(* the box of its four boundary planes (assembly_final.py 88-98).          *)
(***************************************************************************)
\* assembly_final.py line 12: assm_width = 22, in 1e-5 cm
assm_width == 2200000

\* assembly_final.py lines 88-90
pwr_lattice ==
    [name |-> "Fuel Assembly", n |-> 11, pitch |-> assm_width \div 11,
     lower_left |-> (0 - assm_width) \div 2]

InBox_ClosedMutant(half, x, y) ==
    /\ 0 - half <= x /\ x <= half
    /\ 0 - half <= y /\ y <= half

\* +min_x & -max_x & +min_y & -max_y: a point on a lower face is inside,
\* one on an upper face is not
InBox(half, x, y) ==
    /\ 0 - half <= x /\ x < half
    /\ 0 - half <= y /\ y < half

\* -surfs['core barrel IR']; the radius is in units of 500e-5 cm and the
\* coordinates are multiples of that unit
InCylinder(r, x, y) == (x \div 500) * (x \div 500) + (y \div 500) * (y \div 500) < r * r

Enclosures ==
    {[lattice |-> core_lattice, shape |-> "cylinder", size |-> core_barrel_IR],
     [lattice |-> assembly_lattice, shape |-> "box", size |-> lat_grid_box_inner.num],
     [lattice |-> pwr_lattice, shape |-> "box", size |-> assm_width \div 2]}

Encloses(e, x, y) ==
    IF e.shape = "cylinder" THEN InCylinder(e.size, x, y) ELSE InBox(e.size, x, y)

\* coordinates at and next to the faces of the bounding region
EdgeCoordinates(e) ==
    IF e.shape = "cylinder"
    THEN {-500 * e.size, -500 * (e.size - 1), 0, 500 * (e.size - 1), 500 * e.size}
    ELSE {-e.size - 1, -e.size, 1 - e.size, 0, e.size - 1, e.size, e.size + 1}

\* a point of the bounding cell handed down to the lattice
LocateEnclosed ==
    /\ unit = "enclose"
    /\ probe = NoProbe
    /\ \E e \in Enclosures :
       \E x \in EdgeCoordinates(e), y \in EdgeCoordinates(e) :
          /\ Encloses(e, x, y)
          /\ probe' = [lattice |-> e.lattice.name, i |-> e.lattice.n, j |-> e.lattice.n,
                       x |-> x, y |-> y,
                       ix |-> LatticeIndex(e.lattice, x),
                       iy |-> LatticeIndex(e.lattice, y)]
    /\ UNCHANGED <<unit, call, ret, builder, universes, log, override, raised, heap,
                   wrapped, assembly, EvalVars, BuildVars, catalog, names>>

(***************************************************************************)
(* The names a build looks up.  core_geometry reads its surfaces and       *)
(* materials from the module-level dictionaries surfs and mats, and its    *)
(* universes from the dictionaries pin_universes, assembly_universes and   *)
(* reflector_universes fill and return.  A statement of the build is the   *)
(* set of keys read since the previous binding, and the key it then binds  *)
(* in a registry; reading a key that is not in its dictionary raises       *)
(* KeyError.  The keys do not depend on num_rings, num_axial or CRs; the   *)
(* fuel materials depend on depleted.                                      *)
(***************************************************************************)
Lookup(reg, key, reads) == [reg |-> reg, key |-> key, reads |-> reads]

Keys(reg, keys) == {<<reg, k>> : k \in keys}

\* pins.py line 162
Fuels == {"fresh", "depleted"}

\* the keys of mats when materials.py has been imported
MatsAtImport ==
    {"He", "Air", "In", "SS302", "SS", "CS", "Zr", "M5", "AIC", "H2O", "BSG",
     "UO2 1.6 fresh", "UO2 2.4 fresh", "UO2 3.1 fresh", "UO2 2.4 depleted",
     "UO2 1.6 depleted", "UO2 3.1 depleted"}

SurfsAtImport_NoSafetyBanksMutant ==
    {"pellet OR", "plenum spring OR", "clad IR", "clad OR", "GT IR", "GT OR",
     "GT dashpot IR", "GT dashpot OR", "CP OR", "CR IR", "CR OR", "BA IR 1", "BA IR 2",
     "BA IR 3", "BA IR 4", "BA IR 5", "BA IR 6", "BA IR 7", "BA IR 8", "IT IR", "IT OR",
     "rod grid box", "lat grid box inner", "lat grid box outer", "bot support plate",
     "top support plate", "bottom FR", "top lower nozzle", "bot lower nozzle",
     "bot active core", "top active core", "top lower thimble", "BA bot", "grid1bot",
     "grid1top", "grid2bot", "grid2top", "grid3bot", "grid3top", "grid4bot", "grid4top",
     "grid5bot", "grid5top", "dashpot top", "top pin plenum", "top FR", "bot upper nozzle",
     "top upper nozzle", "core barrel IR", "core barrel OR", "neutron shield OR",
     "neutron shield NWbot SEtop", "neutron shield NWtop SEbot",
     "neutron shield NEbot SWtop", "neutron shield NEtop SWbot", "RPV IR", "RPV OR",
     "upper bound", "lower bound"}

\* the keys of surfs when surfaces.py has been imported: the planes of the
\* safety banks SA..SE are among them, those of the banks A..D are not
SurfsAtImport ==
    {"pellet OR", "plenum spring OR", "clad IR", "clad OR", "GT IR", "GT OR",
     "GT dashpot IR", "GT dashpot OR", "CP OR", "CR IR", "CR OR", "BA IR 1", "BA IR 2",
     "BA IR 3", "BA IR 4", "BA IR 5", "BA IR 6", "BA IR 7", "BA IR 8", "IT IR", "IT OR",
     "rod grid box", "lat grid box inner", "lat grid box outer", "bot support plate",
     "top support plate", "bottom FR", "top lower nozzle", "bot lower nozzle",
     "bot active core", "top active core", "top lower thimble", "BA bot", "grid1bot",
     "grid1top", "grid2bot", "grid2top", "grid3bot", "grid3top", "grid4bot", "grid4top",
     "grid5bot", "grid5top", "dashpot top", "top pin plenum", "top FR", "bot upper nozzle",
     "top upper nozzle", "bankSA top", "bankSA bot", "bankSB top", "bankSB bot",
     "bankSC top", "bankSC bot", "bankSD top", "bankSD bot", "bankSE top", "bankSE bot",
     "core barrel IR", "core barrel OR", "neutron shield OR", "neutron shield NWbot SEtop",
     "neutron shield NWtop SEbot", "neutron shield NEbot SWtop",
     "neutron shield NEtop SWbot", "RPV IR", "RPV OR", "upper bound", "lower bound"}

\* pins.py lines 169-186: the planes of the banks A..D are bound in surfs
BankPlaneLookups ==
    <<
      Lookup("surfs", "bankD top", {}),
      Lookup("surfs", "bankD bot", {}),
      Lookup("surfs", "bankC top", {}),
      Lookup("surfs", "bankC bot", {}),
      Lookup("surfs", "bankB top", {}),
      Lookup("surfs", "bankB bot", {}),
      Lookup("surfs", "bankA top", {}),
      Lookup("surfs", "bankA bot", {})>>

\* pins.py lines 194-281
GuideTubeLookups ==
    <<
      Lookup("pins", "water pin",
             Keys("mats", {"H2O"})),
      Lookup("pins", "GT empty",
             Keys("surfs", {"GT IR", "GT OR"})
        \cup Keys("mats", {"H2O", "Zr"})
        \cup Keys("pins", {"water pin"})),
      Lookup("pins", "GT empty grid (bottom)",
             Keys("surfs", {"GT IR", "GT OR", "rod grid box"})
        \cup Keys("mats", {"H2O", "Zr", "In"})),
      Lookup("pins", "GT empty grid (intermediate)",
             Keys("surfs", {"GT IR", "GT OR", "rod grid box"})
        \cup Keys("mats", {"H2O", "Zr"})),
      Lookup("pins", "GT empty nozzle",
             Keys("surfs", {"GT IR", "GT OR"})
        \cup Keys("mats", {"H2O", "Zr"})),
      Lookup("pins", "GTd empty",
             Keys("surfs", {"GT dashpot IR", "GT dashpot OR"})
        \cup Keys("mats", {"H2O", "Zr"})),
      Lookup("pins", "GTd empty grid (bottom)",
             Keys("surfs", {"GT dashpot IR", "GT dashpot OR", "rod grid box"})
        \cup Keys("mats", {"H2O", "Zr", "In"})),
      Lookup("pins", "GTd empty grid (intermediate)",
             Keys("surfs", {"GT dashpot IR", "GT dashpot OR", "rod grid box"})
        \cup Keys("mats", {"H2O", "Zr"})),
      Lookup("pins", "GTd empty nozzle",
             Keys("surfs", {"GT dashpot IR", "GT dashpot OR"})
        \cup Keys("mats", {"H2O", "Zr"})),
      Lookup("pins", "GT empty",
             Keys("surfs", {"bot support plate", "top support plate", "top lower nozzle",
                            "top lower thimble", "grid1bot", "grid1top", "dashpot top",
                            "grid2bot", "grid2top", "grid3bot", "grid3top", "grid4bot",
                            "grid4top", "top active core", "grid5bot", "grid5top",
                            "top pin plenum", "top FR", "bot upper nozzle",
                            "top upper nozzle"})
        \cup Keys("pins", {"water pin", "GTd empty", "GTd empty grid (bottom)", "GT empty",
                           "GT empty grid (intermediate)"})),
      Lookup("pins", "GT empty instr",
             Keys("pins", {"water pin", "GT empty", "GT empty grid (bottom)",
                           "GT empty grid (intermediate)"}))>>

\* pins.py lines 307-332
InstrumentTubeLookups ==
    <<
      Lookup("pins", "IT",
             Keys("surfs", {"IT IR", "IT OR", "GT IR", "GT OR"})
        \cup Keys("mats", {"Air", "Zr", "H2O"})),
      Lookup("pins", "IT grid (bottom)",
             Keys("surfs", {"IT IR", "IT OR", "GT IR", "GT OR", "rod grid box"})
        \cup Keys("mats", {"Air", "Zr", "H2O", "In"})),
      Lookup("pins", "IT grid (intermediate)",
             Keys("surfs", {"IT IR", "IT OR", "GT IR", "GT OR", "rod grid box"})
        \cup Keys("mats", {"Air", "Zr", "H2O"})),
      Lookup("pins", "IT nozzle",
             Keys("surfs", {"IT IR", "IT OR", "GT IR", "GT OR"})
        \cup Keys("mats", {"Air", "Zr", "H2O", "SS"})),
      Lookup("pins", "IT dashpot",
             Keys("surfs", {"IT IR", "IT OR"})
        \cup Keys("mats", {"Air", "Zr", "H2O"})),
      Lookup("pins", "IT stack",
             Keys("pins", {"IT dashpot", "IT", "IT grid (bottom)",
                           "IT grid (intermediate)", "water pin"}))>>

\* pins.py lines 358-399
ControlRodLookups ==
    <<
      Lookup("pins", "CR",
             Keys("surfs", {"CP OR", "CR IR", "GT IR", "GT OR"})
        \cup Keys("mats", {"AIC", "Air", "SS", "H2O", "Zr"})),
      Lookup("pins", "CR grid (bottom)",
             Keys("surfs", {"CP OR", "CR IR", "GT IR", "GT OR", "rod grid box"})
        \cup Keys("mats", {"AIC", "Air", "SS", "H2O", "Zr", "In"})),
      Lookup("pins", "CR grid (intermediate)",
             Keys("surfs", {"CP OR", "CR IR", "GT IR", "GT OR", "rod grid box"})
        \cup Keys("mats", {"AIC", "Air", "SS", "H2O", "Zr"})),
      Lookup("pins", "CR nozzle",
             Keys("surfs", {"CP OR", "CR IR", "CR OR"})
        \cup Keys("mats", {"AIC", "Air", "SS", "H2O"})),
      Lookup("pins", "CR blank",
             Keys("surfs", {"CP OR", "CR IR", "CR OR", "GT IR", "GT OR"})
        \cup Keys("mats", {"SS", "Air", "H2O", "Zr"})),
      Lookup("pins", "CR blank grid (bottom)",
             Keys("surfs", {"CP OR", "CR IR", "CR OR", "GT IR", "GT OR", "rod grid box"})
        \cup Keys("mats", {"SS", "Air", "H2O", "Zr", "In"})),
      Lookup("pins", "CR blank grid (intermediate)",
             Keys("surfs", {"CP OR", "CR IR", "CR OR", "GT IR", "GT OR", "rod grid box"})
        \cup Keys("mats", {"SS", "Air", "H2O", "Zr"})),
      Lookup("pins", "CR blank nozzle",
             Keys("surfs", {"CP OR", "CR IR", "CR OR"})
        \cup Keys("mats", {"SS", "Air", "H2O"})),
      Lookup("pins", "CR blank bare",
             Keys("surfs", {"CP OR", "CR IR", "CR OR"})
        \cup Keys("mats", {"SS", "Air", "H2O"})),
      Lookup("pins", "CR bare",
             Keys("surfs", {"CP OR", "CR IR", "CR OR"})
        \cup Keys("mats", {"AIC", "Air", "SS", "H2O"}))>>

\* pins.py lines 408-473, one pass of the loop over the banks
BankLookups(b) ==
    <<
      Lookup("pins", "GT CR bank " \o b \o " dummy",
             Keys("surfs", {"bottom FR", "dashpot top", "bank" \o b \o " bot", "bank" \o b \o " top"})
        \cup Keys("pins", {"water pin", "GTd empty", "GT empty", "CR", "CR blank"})),
      Lookup("pins", "GT CR bank " \o b \o " dummy grid (bottom)",
             Keys("surfs", {"bottom FR", "dashpot top", "bank" \o b \o " bot", "bank" \o b \o " top"})
        \cup Keys("pins", {"water pin", "GTd empty grid (bottom)",
                           "GT empty grid (bottom)", "CR grid (bottom)",
                           "CR blank grid (bottom)"})),
      Lookup("pins", "GT CR bank " \o b \o " dummy grid (intermediate)",
             Keys("surfs", {"bottom FR", "dashpot top", "bank" \o b \o " bot", "bank" \o b \o " top"})
        \cup Keys("pins", {"water pin", "GTd empty grid (intermediate)",
                           "GT empty grid (intermediate)", "CR grid (intermediate)",
                           "CR blank grid (intermediate)"})),
      Lookup("pins", "GT CR bank " \o b \o " dummy nozzle",
             Keys("surfs", {"bottom FR", "dashpot top", "bank" \o b \o " bot", "bank" \o b \o " top"})
        \cup Keys("pins", {"water pin", "GTd empty nozzle", "GT empty nozzle", "CR nozzle",
                           "CR blank nozzle"})),
      Lookup("pins", "GT CR bank " \o b \o " dummy bare",
             Keys("surfs", {"bottom FR", "dashpot top", "bank" \o b \o " bot", "bank" \o b \o " top"})
        \cup Keys("pins", {"water pin", "GTd empty nozzle", "GT empty nozzle", "CR bare",
                           "CR blank bare"})),
      Lookup("pins", "GT CR bank " \o b,
             Keys("pins", {"water pin", "GT CR bank " \o b \o " dummy nozzle", "GT CR bank " \o b \o " dummy",
                           "GT CR bank " \o b \o " dummy grid (bottom)",
                           "GT CR bank " \o b \o " dummy grid (intermediate)",
                           "GT CR bank " \o b \o " dummy bare"}))>>

RECURSIVE AllBankLookups(_)
AllBankLookups(banks) ==
    IF banks = <<>> THEN <<>>
    ELSE BankLookups(Head(banks)) \o AllBankLookups(Tail(banks))

\* pins.py lines 499-663
BurnableAbsorberLookups ==
    <<
      Lookup("pins", "BA",
             Keys("surfs", {"BA IR 1", "BA IR 2", "BA IR 3", "BA IR 4", "BA IR 5",
                            "BA IR 6", "BA IR 7", "BA IR 8"})
        \cup Keys("mats", {"Air", "SS", "BSG", "H2O", "Zr"})),
      Lookup("pins", "BA grid (bottom)",
             Keys("surfs", {"BA IR 1", "BA IR 2", "BA IR 3", "BA IR 4", "BA IR 5",
                            "BA IR 6", "BA IR 7", "BA IR 8", "rod grid box"})
        \cup Keys("mats", {"Air", "SS", "BSG", "H2O", "Zr", "In"})),
      Lookup("pins", "BA grid (intermediate)",
             Keys("surfs", {"BA IR 1", "BA IR 2", "BA IR 3", "BA IR 4", "BA IR 5",
                            "BA IR 6", "BA IR 7", "BA IR 8", "rod grid box"})
        \cup Keys("mats", {"Air", "SS", "BSG", "H2O", "Zr"})),
      Lookup("pins", "BA dashpot",
             Keys("surfs", {"BA IR 1", "BA IR 2", "BA IR 3", "BA IR 4", "BA IR 5",
                            "BA IR 6", "GT dashpot IR", "GT dashpot OR"})
        \cup Keys("mats", {"Air", "SS", "BSG", "H2O", "Zr"})),
      Lookup("pins", "BA dashpot grid (bottom)",
             Keys("surfs", {"BA IR 1", "BA IR 2", "BA IR 3", "BA IR 4", "BA IR 5",
                            "BA IR 6", "GT dashpot IR", "GT dashpot OR", "rod grid box"})
        \cup Keys("mats", {"Air", "SS", "BSG", "H2O", "Zr", "In"})),
      Lookup("pins", "BA dashpot grid (intermediate)",
             Keys("surfs", {"BA IR 1", "BA IR 2", "BA IR 3", "BA IR 4", "BA IR 5",
                            "BA IR 6", "GT dashpot IR", "GT dashpot OR", "rod grid box"})
        \cup Keys("mats", {"Air", "SS", "BSG", "H2O", "Zr"})),
      Lookup("pins", "BA blank SS",
             Keys("surfs", {"BA IR 6", "BA IR 7", "BA IR 8"})
        \cup Keys("mats", {"SS", "H2O", "Zr"})),
      Lookup("pins", "BA blank SS bare",
             Keys("surfs", {"BA IR 6"})
        \cup Keys("mats", {"SS", "H2O"})),
      Lookup("pins", "BA stack",
             Keys("surfs", {"bot support plate", "top support plate", "top lower nozzle",
                            "top lower thimble", "grid1bot", "BA bot", "grid1top",
                            "dashpot top", "grid2bot", "grid2top", "grid3bot", "grid3top",
                            "grid4bot", "grid4top", "top active core", "grid5bot",
                            "grid5top", "top pin plenum", "top FR", "bot upper nozzle",
                            "top upper nozzle"})
        \cup Keys("pins", {"water pin", "GTd empty", "GTd empty grid (bottom)",
                           "BA dashpot grid (bottom)", "BA dashpot", "BA",
                           "BA grid (intermediate)", "BA blank SS", "BA blank SS bare"}))>>

\* pins.py lines 690-924; fuel is 'depleted' if depleted else 'fresh' (line 162)
FuelLookups(fuel) ==
    <<
      Lookup("pins", "SS pin",
             Keys("surfs", {"clad OR"})
        \cup Keys("mats", {"SS", "H2O"})),
      Lookup("pins", "end plug",
             Keys("surfs", {"clad OR"})
        \cup Keys("mats", {"M5", "H2O"})),
      Lookup("pins", "pin plenum",
             Keys("surfs", {"plenum spring OR", "clad IR", "clad OR"})
        \cup Keys("mats", {"SS302", "He", "M5", "H2O"})),
      Lookup("pins", "pin plenum grid (intermediate)",
             Keys("surfs", {"plenum spring OR", "clad IR", "clad OR", "rod grid box"})
        \cup Keys("mats", {"In", "He", "Zr", "H2O"})),
      Lookup("pins", "Outside pin",
             Keys("surfs", {"clad IR", "clad OR"})
        \cup Keys("mats", {"UO2 1.6 " \o fuel, "He", "M5", "H2O"})),
      Lookup("pins", "Outside pin grid (bottom)",
             Keys("surfs", {"rod grid box"})
        \cup Keys("mats", {"In"})),
      Lookup("pins", "Outside pin grid (intermediate)",
             Keys("surfs", {"rod grid box"})
        \cup Keys("mats", {"Zr"})),
      Lookup("pins", "Fuel pin (1.6%) stack",
             Keys("surfs", {"grid1bot", "grid1top", "dashpot top", "grid2bot", "grid2top",
                            "grid3bot", "grid3top", "grid4bot", "grid4top", "pellet OR"})
        \cup Keys("pins", {"Outside pin", "Outside pin grid (bottom)",
                           "Outside pin grid (intermediate)"})),
      Lookup("pins", "Fuel (1.6%) stack",
             Keys("surfs", {"bot support plate", "top support plate", "top lower nozzle",
                            "top lower thimble", "top active core", "grid5bot", "grid5top",
                            "top pin plenum", "top FR", "bot upper nozzle",
                            "top upper nozzle"})
        \cup Keys("pins", {"water pin", "SS pin", "end plug", "Fuel pin (1.6%) stack",
                           "pin plenum", "pin plenum grid (intermediate)"})),
      Lookup("pins", "Fuel pin (2.4%) stack",
             Keys("surfs", {"pellet OR"})
        \cup Keys("mats", {"UO2 2.4 " \o fuel})
        \cup Keys("pins", {"Outside pin", "Outside pin grid (bottom)",
                           "Outside pin grid (intermediate)"})),
      Lookup("pins", "Fuel (2.4%) stack",
             Keys("pins", {"water pin", "SS pin", "end plug", "Fuel pin (2.4%) stack",
                           "pin plenum", "pin plenum grid (intermediate)"})),
      Lookup("pins", "Fuel pin (3.1%) stack",
             Keys("surfs", {"pellet OR"})
        \cup Keys("mats", {"UO2 3.1 " \o fuel})
        \cup Keys("pins", {"Outside pin", "Outside pin grid (bottom)",
                           "Outside pin grid (intermediate)"})),
      Lookup("pins", "Fuel (3.1%) stack",
             Keys("pins", {"water pin", "SS pin", "end plug", "Fuel pin (3.1%) stack",
                           "pin plenum", "pin plenum grid (intermediate)"}))>>

\* assemblies.py lines 145-157: the guide tube, absorber, instrument tube and
\* bank stacks are read from the pin catalog
CommonPins ==
    Keys("pins", {"GT empty", "GT empty instr", "BA stack", "IT stack", "GT CR bank A",
                  "GT CR bank B", "GT CR bank C", "GT CR bank D", "GT CR bank SA",
                  "GT CR bank SB", "GT CR bank SC", "GT CR bank SD", "GT CR bank SE"})

\* assemblies.py lines 29-118: the surfaces and materials make_assembly reads
make_assembly_reads ==
    Keys("surfs", {"lat grid box outer", "lat grid box inner", "grid1bot", "grid1top",
                        "grid2bot", "grid2top", "grid3bot", "grid3top", "grid4bot",
                        "grid4top", "grid5bot", "grid5top"})
    \cup Keys("mats", {"H2O", "In", "Zr"})

\* the keys assembly_universes binds, in order, by the enrichment of the fuel
\* stack filling the array (assemblies.py lines 182-456)
AssemblyKeys(enrichment) ==
    CASE enrichment = "1.6%" ->
        <<"Assembly (1.6%)", "Assembly (1.6%) CR A", "Assembly (1.6%) CR B",
          "Assembly (1.6%) CR C", "Assembly (1.6%) CR D", "Assembly (1.6%) CR SB",
          "Assembly (1.6%) CR SC", "Assembly (1.6%) CR SD", "Assembly (1.6%) CR SE",
          "Assembly (1.6%) instr", "Assembly (1.6%) CR A instr",
          "Assembly (1.6%) CR B instr", "Assembly (1.6%) CR C instr",
          "Assembly (1.6%) CR D instr", "Assembly (1.6%) CR SB instr",
          "Assembly (1.6%) CR SC instr", "Assembly (1.6%) CR SD instr",
          "Assembly (1.6%) CR SE instr">>
      [] enrichment = "2.4%" ->
        <<"Assembly (2.4%) no BAs", "Assembly (2.4%) CR D", "Assembly (2.4%) CR C",
          "Assembly (2.4%) CR B", "Assembly (2.4%) CR A", "Assembly (2.4%) 12BA",
          "Assembly (2.4%) 16BA", "Assembly (2.4%) no BAs instr",
          "Assembly (2.4%) CR D instr", "Assembly (2.4%) CR C instr",
          "Assembly (2.4%) CR B instr", "Assembly (2.4%) CR A instr",
          "Assembly (2.4%) 12BA instr", "Assembly (2.4%) 16BA instr">>
      [] enrichment = "3.1%" ->
        <<"Assembly (3.1%)", "Assembly (3.1%) CR SA", "Assembly (3.1%) 20BA",
          "Assembly (3.1%) 16BA", "Assembly (3.1%) 15BANW", "Assembly (3.1%) 15BANE",
          "Assembly (3.1%) 15BASW", "Assembly (3.1%) 15BASE", "Assembly (3.1%) 6BAN",
          "Assembly (3.1%) 6BAS", "Assembly (3.1%) 6BAW", "Assembly (3.1%) 6BAE",
          "Assembly (3.1%) instr", "Assembly (3.1%) CR SA instr",
          "Assembly (3.1%) 20BA instr", "Assembly (3.1%) 16BA instr",
          "Assembly (3.1%) 15BANW instr", "Assembly (3.1%) 15BANE instr",
          "Assembly (3.1%) 15BASW instr", "Assembly (3.1%) 15BASE instr",
          "Assembly (3.1%) 6BAN instr", "Assembly (3.1%) 6BAS instr",
          "Assembly (3.1%) 6BAW instr", "Assembly (3.1%) 6BAE instr">>

\* univs[key] = make_assembly(name, universes), the array filled with
\* pins['Fuel (..%) stack'] first
AssemblyLookups(enrichment) ==
    [i \in 1..Len(AssemblyKeys(enrichment)) |->
       Lookup("assemblies", AssemblyKeys(enrichment)[i],
              Keys("pins", {"Fuel (" \o enrichment \o ") stack"})
              \cup make_assembly_reads
              \cup (IF enrichment = "1.6%" /\ i = 1 THEN CommonPins ELSE {}))]

\* reflector.py lines 129-227
ReflectorLookups ==
    <<
      Lookup("reflector", "NW",
             Keys("mats", {"H2O", "SS"})),
      Lookup("reflector", "1,1",
             Keys("mats", {"H2O", "SS"})),
      Lookup("reflector", "4,0",
             Keys("mats", {"H2O", "SS"})),
      Lookup("reflector", "3,0",
             Keys("mats", {"H2O", "SS"})),
      Lookup("reflector", "5,0",
             Keys("mats", {"H2O", "SS"})),
      Lookup("reflector", "2,0",
             Keys("mats", {"H2O", "SS"})),
      Lookup("reflector", "NE",
             Keys("reflector", {"NW"})),
      Lookup("reflector", "SW",
             Keys("reflector", {"NW"})),
      Lookup("reflector", "SE",
             Keys("reflector", {"NW"})),
      Lookup("reflector", "0,2",
             Keys("reflector", {"2,0"})),
      Lookup("reflector", "0,3",
             Keys("reflector", {"5,0"})),
      Lookup("reflector", "0,4",
             Keys("reflector", {"4,0"})),
      Lookup("reflector", "0,5",
             Keys("reflector", {"3,0"})),
      Lookup("reflector", "0,6",
             Keys("reflector", {"2,0"})),
      Lookup("reflector", "1,7",
             Keys("reflector", {"1,1"})),
      Lookup("reflector", "2,8",
             Keys("reflector", {"2,0"})),
      Lookup("reflector", "3,8",
             Keys("reflector", {"3,0"})),
      Lookup("reflector", "4,8",
             Keys("reflector", {"4,0"})),
      Lookup("reflector", "5,8",
             Keys("reflector", {"3,0"})),
      Lookup("reflector", "6,0",
             Keys("reflector", {"2,0"})),
      Lookup("reflector", "6,8",
             Keys("reflector", {"2,0"})),
      Lookup("reflector", "7,1",
             Keys("reflector", {"1,1"})),
      Lookup("reflector", "7,7",
             Keys("reflector", {"1,1"})),
      Lookup("reflector", "8,2",
             Keys("reflector", {"2,0"})),
      Lookup("reflector", "8,3",
             Keys("reflector", {"3,0"})),
      Lookup("reflector", "8,4",
             Keys("reflector", {"4,0"})),
      Lookup("reflector", "8,5",
             Keys("reflector", {"5,0"})),
      Lookup("reflector", "8,6",
             Keys("reflector", {"2,0"})),
      Lookup("reflector", "solid",
             Keys("mats", {"SS"}))>>

\* core.py lines 38-146: the reflector and assembly universes placed in the core
\* lattice, and the surfaces and materials of the root cells
CoreLookups ==
    <<
      Lookup("", "",
             Keys("surfs", {"core barrel IR", "lower bound", "upper bound",
                            "core barrel OR", "RPV IR", "RPV OR"})
        \cup Keys("mats", {"SS", "H2O", "CS"})
        \cup Keys("assemblies", {"Assembly (3.1%) instr", "Assembly (2.4%) CR B",
                                 "Assembly (2.4%) CR D", "Assembly (3.1%) 16BA",
                                 "Assembly (2.4%) CR C", "Assembly (2.4%) CR A",
                                 "Assembly (1.6%) instr"})
        \cup Keys("reflector", {"solid", "0,2", "0,3", "0,4", "0,5", "0,6", "1,1", "NW",
                                "NE", "1,7", "2,0", "2,8", "3,0", "3,8", "4,0", "4,8",
                                "5,0", "5,8", "6,0", "SW", "SE", "6,8", "7,1", "7,7",
                                "8,2", "8,3", "8,4", "8,5", "8,6"}))>>

\* core_geometry (core.py lines 30-146): assembly_universes, which calls
\* pin_universes first, then reflector_universes, then the core lattice and
\* the root cells
BuildProgram(fuel) ==
    BankPlaneLookups \o GuideTubeLookups \o InstrumentTubeLookups
    \o ControlRodLookups \o AllBankLookups(StackedBanks)
    \o BurnableAbsorberLookups \o FuelLookups(fuel)
    \o AssemblyLookups("1.6%") \o AssemblyLookups("2.4%") \o AssemblyLookups("3.1%")
    \o ReflectorLookups \o CoreLookups

NoNames == [build |-> 0, pc |-> 0, exc |-> "", fuel |-> "", defined |-> {}]

\* the first build of an interpreter: surfs and mats are as the imports of
\* surfaces.py and materials.py leave them
Imported(fuel) ==
    [build |-> 1, pc |-> 0, exc |-> "", fuel |-> fuel,
     defined |-> Keys("surfs", SurfsAtImport) \cup Keys("mats", MatsAtImport)]

\* dict.__getitem__ for every key read, then dict.__setitem__
Execute(n, stmt) ==
    IF ~(stmt.reads \subseteq n.defined)
    THEN [n EXCEPT !.exc = "KeyError"]
    ELSE [n EXCEPT !.pc = n.pc + 1,
                   !.defined = IF stmt.reg = "" THEN @
                               ELSE @ \cup {<<stmt.reg, stmt.key>>}]

NamesFrame == <<unit, call, ret, builder, universes, log, override, raised, heap,
                wrapped, assembly, probe, EvalVars, BuildVars, catalog>>

\* the next statement of the build
LookUp ==
    /\ unit = "names"
    /\ names.exc = ""
    /\ names.pc < Len(BuildProgram(names.fuel))
    /\ names' = Execute(names, BuildProgram(names.fuel)[names.pc + 1])
    /\ UNCHANGED NamesFrame

\* core_geometry is called again in the same interpreter: surfs and mats
\* keep their keys, the three catalogs are new dictionaries
BuildAgain ==
    /\ unit = "names"
    /\ names.exc = ""
    /\ names.pc = Len(BuildProgram(names.fuel))
    /\ names.build < MaxBuilds
    /\ \E fuel \in Fuels :
          names' = [names EXCEPT !.build = @ + 1, !.pc = 0, !.fuel = fuel,
                                 !.defined = {d \in @ : d[1] \in {"surfs", "mats"}}]
    /\ UNCHANGED NamesFrame

Init ==
    /\ unit \in Units
    /\ call = NoCall
    /\ ret = NoRet
    /\ builder = ""
    /\ universes = <<>>
    /\ log = <<>>
    /\ override = NoOverride
    /\ raised = ""
    /\ heap = <<>>
    /\ wrapped = NoWrap
    /\ assembly = NoAssembly
    /\ probe = NoProbe
    /\ script \in IF unit = "evaluate" THEN Scripts ELSE {""}
    /\ evals = [e \in Evaluations |-> NoEval]
    /\ fs = NoFiles
    /\ workers = [w \in Builds |-> NoBuild]
    /\ registry = [i \in Interpreters |-> ImportedSurfs]
    /\ catalog = NoCatalog
    /\ names \in IF unit = "names" THEN {Imported(fuel) : fuel \in Fuels} ELSE {NoNames}

Next ==
    \/ MakePin
    \/ MakeStack
    \/ MakePinStack
    \/ FuelFill
    \/ TileLattice
    \/ OverrideCore
    \/ OverrideAssembly
    \/ GenerateAssembly
    \/ LocateCentre
    \/ MakeReflectors
    \/ RotateUniverse
    \/ RootUniverse
    \/ MakeScratch
    \/ BuildAssembly
    \/ RunSolver
    \/ ReadResult
    \/ RemoveScratch
    \/ StartBuild
    \/ StoreBankPlanes
    \/ StackBanks
    \/ BindUniverse
    \/ RotateAgain
    \/ MakeControlRodPin
    \/ StackBank
    \/ MakeAssembly
    \/ LocateEnclosed
    \/ LookUp
    \/ BuildAgain

Spec == Init /\ [][Next]_vars

(***************************************************************************)
(* Point membership, used to state what the composed universes contain.    *)
(***************************************************************************)
\* sample points around the surfaces of the composer calls: every surface
\* position, and a position strictly between any two of them
Points == [z : 0..(2 * MaxK + 1), r2 : 0..(2 * MaxK + 1), d : {0}]

\* sample points around the planes and rings of a subdivided fuel: the integers
\* on both sides of every split bottom_fuel_stack + j*length/n and i*pellet_OR^2/n
FuelPoints ==
    [z  : UNION {{(bottom_fuel_stack * n + j * active_fuel_length) \div n,
                  ((bottom_fuel_stack * n + j * active_fuel_length) \div n) + 1} :
                 <<n, j>> \in {<<n, j>> \in (1..(MaxSplit + 1)) \X (0..(MaxSplit + 1)) : j <= n}},
     r2 : UNION {{(i * pellet_OR * pellet_OR) \div n,
                  ((i * pellet_OR * pellet_OR) \div n) + 1} :
                 <<n, i>> \in {<<n, i>> \in (1..(MaxSplit + 1)) \X (0..(MaxSplit + 1)) : i <= n}},
     d  : {0}]

\* the cells of a universe whose region contains the point
CellsAt(cells, pt) == {i \in 1..Len(cells) : RegionContains(cells[i].region, pt)}

\* Universe.find: cells are tried in order and the first that contains the
\* point wins
Resolve(cells, pt) ==
    IF CellsAt(cells, pt) = {}
    THEN "nothing"
    ELSE cells[CHOOSE i \in CellsAt(cells, pt) : \A j \in CellsAt(cells, pt) : i <= j].fill

\* positions num/den strictly ascending
Ascending(surfaces) ==
    \A i \in 1..(Len(surfaces) - 1) :
        surfaces[i].num * surfaces[i + 1].den < surfaces[i + 1].num * surfaces[i].den

Returned == ret.exc = ""

(***************************************************************************)
(* Claims about the composers.                                             *)
(***************************************************************************)
\* C1: make_pin, make_stack and make_pin_stack raise a construction error
\* whenever the fills are not exactly one more than the surfaces, for every
\* k >= 0; no universe is returned from such a call.
C1_LengthMismatchRaises ==
    (/\ call.fn \in {"make_pin", "make_stack", "make_pin_stack"}
     /\ Len(call.fills) # Len(call.surfaces) + 1)
    => ~Returned

\* C2: without grid, make_pin on k >= 1 cylinders and k+1 fills returns exactly
\* k+1 cells in order: -surfaces[0] with fills[0], then each ring
\* +surfaces[i-1] & -surfaces[i] with fills[i], then +surfaces[k-1] with fills[k].
C2_PinCells ==
    (/\ call.fn = "make_pin"
     /\ call.grid = ""
     /\ Len(call.surfaces) >= 1
     /\ Len(call.fills) = Len(call.surfaces) + 1)
    => LET k == Len(call.surfaces)
       IN  /\ Returned
           /\ Len(ret.cells) = k + 1
           /\ ret.cells[1] = Cell(call.fills[1], <<Neg(call.surfaces[1])>>)
           /\ \A i \in 1..(k - 1) :
                 ret.cells[i + 1] = Cell(call.fills[i + 1],
                                         <<Pos(call.surfaces[i]), Neg(call.surfaces[i + 1])>>)
           /\ ret.cells[k + 1] = Cell(call.fills[k + 1], <<Pos(call.surfaces[k])>>)

C2_Witness ==
    /\ call.fn = "make_pin"
    /\ call.grid = ""
    /\ Len(call.surfaces) = MaxK
    /\ Len(call.fills) = MaxK + 1
    /\ call.fills[2] # call.fills[3]
    /\ Returned
    /\ Len(ret.cells) = MaxK + 1

\* C3: make_stack on k >= 1 ascending planes and k+1 universes returns exactly
\* k+1 cells, cell i filled with universes[i]; a point strictly below the first
\* plane resolves to universes[0], one strictly between plane i-1 and plane i to
\* universes[i], one strictly above the last plane to universes[k].
C3_StackResolves ==
    (/\ call.fn = "make_stack"
     /\ Len(call.surfaces) >= 1
     /\ Ascending(call.surfaces)
     /\ Len(call.fills) = Len(call.surfaces) + 1)
    => LET k == Len(call.surfaces)
           s == call.surfaces
       IN  /\ Returned
           /\ Len(ret.cells) = k + 1
           /\ \A i \in 1..(k + 1) : ret.cells[i].fill = call.fills[i]
           /\ \A pt \in Points :
                 /\ Evaluate(s[1], pt) < 0 => Resolve(ret.cells, pt) = call.fills[1]
                 /\ \A i \in 1..(k - 1) :
                       (Evaluate(s[i], pt) > 0 /\ Evaluate(s[i + 1], pt) < 0)
                       => Resolve(ret.cells, pt) = call.fills[i + 1]
                 /\ Evaluate(s[k], pt) > 0 => Resolve(ret.cells, pt) = call.fills[k + 1]

C3_Witness ==
    /\ call.fn = "make_stack"
    /\ Len(call.surfaces) = 2
    /\ Ascending(call.surfaces)
    /\ Len(call.fills) = 3
    /\ call.fills[1] # call.fills[2]
    /\ call.fills[2] # call.fills[3]
    /\ Returned
    /\ \E pt \in Points :
          /\ Evaluate(call.surfaces[1], pt) > 0
          /\ Evaluate(call.surfaces[2], pt) < 0
          /\ Resolve(ret.cells, pt) = call.fills[2]

\* the cells that come from the subdivision of the call's ordering surfaces
\* (make_pin_stack appends one more cell, inside the boundary)
SubdivisionCells ==
    IF call.fn = "make_pin_stack"
    THEN SubSeq(ret.cells, 1, Len(ret.cells) - 1)
    ELSE ret.cells

\* the points the subdivision has to cover (make_pin_stack cuts every region
\* to the outside of its boundary)
SubdivisionDomain ==
    CASE call.fn = "make_pin_stack" ->
            {pt \in Points : HalfspaceContains(Pos(call.boundary), pt)}
      [] call.fn = "fuel_fill" -> FuelPoints
      [] OTHER -> Points

\* the ordering surfaces of the call, axial and radial
OrderingSurfaces ==
    IF call.fn = "fuel_fill"
    THEN {axial_surfs(call.num_axial)[j] : j \in 1..(call.num_axial - 1)}
         \cup {rings(call.num_rings)[i] : i \in 1..(call.num_rings - 1)}
    ELSE {call.surfaces[i] : i \in 1..Len(call.surfaces)}

Subdivided ==
    \/ /\ call.fn \in {"make_stack", "make_pin_stack"}
       /\ Len(call.surfaces) >= 1
       /\ Ascending(call.surfaces)
       /\ Len(call.fills) = Len(call.surfaces) + 1
    \/ /\ call.fn = "fuel_fill"
       /\ (call.num_axial > 1 \/ call.num_rings > 1)

\* C4: for strictly ascending ordering surfaces the regions used by make_stack,
\* make_pin_stack and subdivided_fuel do not overlap and cover the domain: every
\* point, also one lying on a surface, is in exactly one region, and a point on
\* a surface always goes to the same (positive) side of it.
C4_SubdivisionPartitions ==
    Subdivided
    => /\ Returned
       /\ \A pt \in SubdivisionDomain :
             /\ Cardinality(CellsAt(SubdivisionCells, pt)) = 1
             /\ \A s \in OrderingSurfaces :
                   Evaluate(s, pt) = 0
                   => \A i \in CellsAt(SubdivisionCells, pt) :
                         /\ \A n \in 1..Len(SubdivisionCells[i].region) :
                               SubdivisionCells[i].region[n] # Neg(s)
                         /\ \E n \in 1..Len(SubdivisionCells[i].region) :
                               SubdivisionCells[i].region[n] = Pos(s)

C4_Witness ==
    /\ call.fn = "fuel_fill"
    /\ call.num_axial = 2
    /\ call.num_rings = 3
    /\ Returned
    /\ Len(ret.cells) = 6
    /\ \E pt \in FuelPoints :
          /\ Evaluate(axial_surfs(2)[1], pt) = 0
          /\ Evaluate(rings(3)[1], pt) = 0
          /\ Cardinality(CellsAt(ret.cells, pt)) = 1

\* C5: make_stack and make_pin_stack abort with a construction error when the
\* ordering surfaces are not strictly ascending (equal positions, or a later
\* surface below an earlier one).
C5_UnorderedRaises ==
    (/\ call.fn \in {"make_stack", "make_pin_stack"}
     /\ Len(call.surfaces) >= 1
     /\ Len(call.fills) = Len(call.surfaces) + 1
     /\ ~Ascending(call.surfaces))
    => ~Returned

(***************************************************************************)
(* Claims about the lattice arrays.                                        *)
(***************************************************************************)
Tiled == unit = "lattice" /\ builder # ""

DefaultUniverse == IF builder = "core_geometry" THEN "solid" ELSE "Fuel Pin"

\* the logged assignments whose index pair names position p
WritesTo(p) ==
    {k \in 1..Len(log) :
        <<Normalize(log[k].i, LatN), Normalize(log[k].j, LatN)>> = p}

LastWriteTo(p) == CHOOSE k \in WritesTo(p) : \A m \in WritesTo(p) : m <= k

\* C6: after the array is tiled with one default universe and overrides are
\* applied, every overridden position holds the universe of the last override
\* written to it and every position never overridden still holds the default.
C6_LastWriteWins ==
    Tiled
    => \A p \in Positions :
          universes[p] = IF WritesTo(p) = {}
                         THEN DefaultUniverse
                         ELSE log[LastWriteTo(p)].value

C6_Witness ==
    /\ Tiled
    /\ builder = "core_geometry"
    /\ Len(log) = 2
    /\ log[1].value # log[2].value
    /\ log[1].i # log[1].j
    /\ WritesTo(<<log[1].i, log[1].j>>) = {1, 2}
    /\ universes[<<log[1].i, log[1].j>>] = log[2].value
    /\ \E p \in Positions : WritesTo(p) = {} /\ universes[p] = "solid"

\* the last override statement named an index outside 0..n-1 on some axis
OutOfRangeOverride ==
    \E k \in 1..Len(override.xs) :
        \/ override.xs[k] \notin 0..(LatN - 1)
        \/ override.ys[k] \notin 0..(LatN - 1)

\* C7: an override whose row or column index is outside 0..n-1 aborts the
\* build with an error: the statement raises and writes nothing to the array.
C7_OutOfRangeRaises ==
    (Tiled /\ OutOfRangeOverride)
    => /\ raised # ""
       /\ Len(log) < override.n

\* the override names an index that no position of the axis answers to,
\* counted from either end
BeyondAxis(o) ==
    \E k \in 1..Len(o.xs) :
        \/ o.xs[k] \notin (-LatN)..(LatN - 1)
        \/ o.ys[k] \notin (-LatN)..(LatN - 1)

\* C7 (amended): an override whose row or column index is outside -n..n-1
\* aborts the build with an error: the statement raises IndexError and
\* modifies no position of the array.  (An index in -n..-1 counts from the
\* end of the axis and is written.)
C7_BeyondAxisRaises ==
    [][(override' # override /\ BeyondAxis(override'))
       => /\ raised' = "IndexError"
          /\ universes' = universes
          /\ log' = log]_vars

\* an index array with one pair inside the array and one beyond it: the
\* statement raised and the pair inside was not written either
C7_Witness ==
    /\ Tiled
    /\ builder = "pwr_assembly"
    /\ Len(override.xs) = 2
    /\ override.xs[1] = 0 /\ override.ys[1] = 0
    /\ override.xs[2] = LatN /\ override.ys[2] = 0
    /\ raised = "IndexError"
    /\ universes = Tile("Fuel Pin")

(***************************************************************************)
(* Lattice index round trip                                                *)
(***************************************************************************)
Located == unit = "index" /\ probe # NoProbe

ProbedLattice == IF probe.lattice = core_lattice.name THEN core_lattice ELSE assembly_lattice

\* the centre of cell i on one axis of an n-cell lattice of the given pitch
\* centred on the origin: -n*pitch/2 + (i + 1/2)*pitch, in halves of a unit
TwiceCentre(n, pitch, i) == -n * pitch + (2 * i + 1) * pitch

\* C8: for the core lattice (9x9, pitch lattice_pitch, lower-left
\* -9*lattice_pitch/2) and the assembly lattice (17x17, pitch pin_pitch,
\* lower-left -17*pin_pitch/2), the physical centre of every cell (i,j) maps
\* back to (i,j) under floor((p - lower_left)/pitch) on each axis.
C8_IndexRoundTrip ==
    Located
    => /\ ProbedLattice.n = IF probe.lattice = "Main core" THEN 9 ELSE 17
       /\ ProbedLattice.pitch = IF probe.lattice = "Main core" THEN lattice_pitch
                                                              ELSE pin_pitch
       /\ 2 * probe.x = TwiceCentre(ProbedLattice.n, ProbedLattice.pitch, probe.i)
       /\ 2 * probe.y = TwiceCentre(ProbedLattice.n, ProbedLattice.pitch, probe.j)
       /\ probe.ix = probe.i
       /\ probe.iy = probe.j

C8_Witness ==
    /\ Located
    /\ probe.lattice = "Assembly"
    /\ probe.i = 16 /\ probe.j = 0
    /\ probe.x > 0 /\ probe.y < 0
    /\ probe.ix = 16 /\ probe.iy = 0

(***************************************************************************)
(* Assembly templates                                                      *)
(***************************************************************************)
Generated == assembly # NoAssembly

MaskPositions == {<<nonfuel_y[k], nonfuel_x[k]>> : k \in 1..Len(nonfuel_y)}

\* the centre entry and the template of the generated array
GeneratedCentre == CHOOSE c \in 1..Len(Centres) : Centres[c].comment = assembly.comment

GeneratedTemplate == Templates(Centres[GeneratedCentre].cent)[assembly.template]

\* C9: every generated 17x17 array uses the one mask of 25 pairwise distinct
\* in-range positions; the 264 positions outside it hold the fuel stack of the
\* assembly's enrichment, the centre (8,8) holds the guide tube for keys
\* without ' instr' and the instrument-tube stack for keys with it, and the
\* other 24 mask positions hold the entries listed for the variant.
C9_TemplateExpansion ==
    Generated
    => /\ Len(nonfuel_y) = 25 /\ Len(nonfuel_x) = 25
       /\ Cardinality(MaskPositions) = 25
       /\ MaskPositions \subseteq AssemblyPositions
       /\ Cardinality(AssemblyPositions \ MaskPositions) = 264
       /\ \A p \in AssemblyPositions \ MaskPositions :
             assembly.universes[p] = "Fuel (" \o GeneratedTemplate.enrichment \o ") stack"
       /\ <<nonfuel_y[13], nonfuel_x[13]>> = <<8, 8>>
       /\ assembly.universes[<<8, 8>>] =
             IF assembly.comment = " instr" THEN "IT stack" ELSE "GT empty instr"
       /\ \A k \in 1..25 :
             k # 13 => assembly.universes[<<nonfuel_y[k], nonfuel_x[k]>>]
                          = GeneratedTemplate.list[k]

C9_Witness ==
    /\ Generated
    /\ assembly.key = "Assembly (3.1%) 16BA instr"
    /\ assembly.universes[<<8, 8>>] = "IT stack"
    /\ assembly.universes[<<0, 0>>] = "Fuel (3.1%) stack"
    /\ \E p \in MaskPositions : assembly.universes[p] = "BA stack"
    /\ \E p \in MaskPositions : assembly.universes[p] = "GT empty"

(***************************************************************************)
(* Rotated reflector blocks                                                *)
(***************************************************************************)
\* C10: rotate_universe returns a fresh universe, distinct from univ, with
\* exactly one cell whose fill is univ itself and whose rotation is the one
\* given, and leaves every universe that existed before the call (univ and
\* the cells, regions and fills in it) as it was.
C10_RotateWrapsShared ==
    [][wrapped'.n = wrapped.n + 1
       => /\ wrapped'.result \notin 1..Len(heap)
          /\ wrapped'.result # wrapped'.univ
          /\ Len(heap'[wrapped'.result].cells) = 1
          /\ heap'[wrapped'.result].cells[1].fill = UniverseFill(wrapped'.univ)
          /\ heap'[wrapped'.result].cells[1].rotation = wrapped'.rotation
          /\ \A k \in 1..Len(heap) : heap'[k] = heap[k]]_vars

\* one block wrapped twice: both wrappers are filled by it and it still has
\* its thirteen water holes and the steel around them
C10_Witness ==
    /\ wrapped.n = 2
    /\ Len(heap) = 4
    /\ heap[3].cells[1].fill = UniverseFill(1)
    /\ heap[4].cells[1].fill = UniverseFill(1)
    /\ heap[3].cells[1].rotation # heap[4].cells[1].rotation
    /\ heap[1] = make_reflector("NW", 13)

(***************************************************************************)
(* The root universe                                                       *)
(***************************************************************************)
RootBuilt == call.fn = "core_geometry" /\ Returned

\* points on, just inside and just outside every surface of the root cells
RootPoints ==
    [z  : {lowest_extent - 1, lowest_extent, lowest_extent + 1,
           highest_extent - 1, highest_extent, highest_extent + 1},
     r2 : {0} \cup UNION {{surfs(k).num - 1, surfs(k).num, surfs(k).num + 1} :
                           k \in {"core barrel IR", "core barrel OR", "RPV IR", "RPV OR"}},
     d  : {0}]

\* the registry surfaces that two points lie on different sides of
Crossed(p, q) ==
    {k \in RootSurfaceKeys : (Evaluate(surfs(k), p) < 0) # (Evaluate(surfs(k), q) < 0)}

\* the surfaces a point can leave the cells through: one step across the
\* surface takes a point of some cell to a point of no cell
ExitSurfaces ==
    {k \in RootSurfaceKeys :
        \E p \in RootPoints, q \in RootPoints :
            /\ CellsAt(ret.cells, p) # {}
            /\ CellsAt(ret.cells, q) = {}
            /\ Crossed(p, q) = {k}}

\* C11: the root universe is closed.  Its cells are the main-core lattice
\* cell and the barrel, downcomer and pressure-vessel shells; the surfaces
\* through which a point can leave their union are RPV OR, lower bound and
\* upper bound, and each carries a boundary-condition tag, vacuum or
\* reflective.
C11_RootClosed ==
    RootBuilt
    => /\ [i \in 1..Len(ret.cells) |-> ret.cells[i].fill]
             = <<"Main core", "SS", "H2O", "CS">>
       /\ \A p \in RootPoints : Cardinality(CellsAt(ret.cells, p)) <= 1
       /\ ExitSurfaces = {"RPV OR", "lower bound", "upper bound"}
       /\ \A k \in ExitSurfaces : surfs(k).boundary_type \in {"vacuum", "reflective"}

\* a point of the pressure vessel just inside RPV OR, with the point just
\* outside it in no cell
C11_Witness ==
    /\ RootBuilt
    /\ \E p \in RootPoints, q \in RootPoints :
          /\ Resolve(ret.cells, p) = "CS"
          /\ CellsAt(ret.cells, q) = {}
          /\ Crossed(p, q) = {"RPV OR"}
    /\ surfs("RPV OR").boundary_type = "vacuum"

(***************************************************************************)
(* Fitness evaluations                                                     *)
(***************************************************************************)
\* C12: in every fitness function, when the solver run or the reading of its
\* result fails, the failure is caught inside FIT: FIT returns a fixed
\* sentinel value and no exception reaches the optimizer.
C12_FailureCaught ==
    \A e \in Evaluations :
        evals[e].failed
        => /\ evals[e].pc = "returned"
           /\ evals[e].result.given
           /\ \A o \in Evaluations : evals[o].failed => evals[o].result = evals[e].result

\* C13: once the evaluations have finished, none of the scratch directories
\* they created still exists, whether their solver runs succeeded or failed.
C13_ScratchRemoved ==
    (\A e \in Evaluations : ~InFlight(e))
    => \A e \in Evaluations : evals[e].made => evals[e].randnum \notin fs.dirs

\* C14: no two evaluations that overlap in time work in the same scratch
\* directory, and an evaluation's rmtree never removes files of an
\* evaluation that is still running.
C14_ScratchExclusive ==
    /\ [](\A e \in Evaluations, o \in Evaluations :
             (e # o /\ InFlight(e) /\ InFlight(o)) => evals[e].randnum # evals[o].randnum)
    /\ [][\A f \in fs.files \ fs'.files : ~InFlight(f[2]) \/ evals'[f[2]].pc = "returned"]_vars

\* the number of entries of the candidate that are not 0: its fuel pins
FuelPins(e) == Cardinality({i \in 1..total_pin : Candidate(evals[e].voids)[i] # 0})

Succeeded(e) == evals[e].pc = "returned" /\ ~evals[e].failed

\* C19: in assembly_final.py, when the solver run succeeds with result k, FIT
\* returns k rounded to 5 decimals if the candidate has at most 61 fuel pins
\* and k + (-1e5) rounded to 5 decimals if it has more; exactly 61 fuel pins
\* are not penalized.
C19_FuelPenalty ==
    \A e \in Evaluations :
        (script = "assembly_final" /\ Succeeded(e))
        => /\ evals[e].result.given
           /\ evals[e].result.hi = IF FuelPins(e) <= 61 THEN 0 ELSE -1
           /\ evals[e].result.micro % 10 = 0
           /\ Abs(evals[e].result.micro - evals[e].k) <= 5

\* one candidate with exactly 61 fuel pins returned unpenalized and one with
\* 62 returned with the penalty, both rounded from a tie
C19_Witness ==
    /\ script = "assembly_final"
    /\ Succeeded(1) /\ FuelPins(1) = 61 /\ evals[1].result.hi = 0
    /\ evals[1].k = 1234565 /\ evals[1].result.micro = 1234560
    /\ Succeeded(2) /\ FuelPins(2) = 62 /\ evals[2].result.hi = -1
    /\ evals[2].k = 1234575 /\ evals[2].result.micro = 1234580

(***************************************************************************)
(* Concurrent and successive builds                                        *)
(***************************************************************************)
\* C15: under any interleaving of concurrent builds, in separate processes
\* or as threads of one interpreter, every stack of a finished geometry uses
\* for each bank b the planes z = 786.348 - CRs[b] and z = 405.713 - CRs[b]
\* of the build's own CRs.
C15_OwnPlanes ==
    \A w \in Builds :
        Finished(w)
        => \A b \in BankNames :
              /\ workers[w].planes[b].top = bank_top - workers[w].CRs[CRIndex(b)]
              /\ workers[w].planes[b].bot = bank_bot - workers[w].CRs[CRIndex(b)]

\* C16: a call to core_geometry leaves the module-level registry surfs as it
\* was: the same keys bound to the same objects after the call as before it.
C16_RegistryUnchanged ==
    \A w \in Builds :
        (Finished(w) /\ ~workers[w].overlapped)
        => workers[w].after = workers[w].before

CatalogFills(id) == {catalog.objs[id].fills[i] : i \in 1..Len(catalog.objs[id].fills)}

\* the universes that fill a cell of a universe of reflector_universes
ReflectorFills(id) ==
    {heap[id].cells[i].fill.univ : i \in 1..Len(heap[id].cells)} \ {0}

\* the fill graphs: the universes each universe's cells are filled with
CatalogGraph == [id \in 1..Len(catalog.objs) |-> CatalogFills(id)]

ReflectorGraph == [id \in 1..Len(heap) |-> ReflectorFills(id)]

\* everything reachable from the universes of `frontier' along fills
RECURSIVE Below(_, _, _)
Below(graph, frontier, seen) ==
    LET next == UNION {graph[id] : id \in frontier} \ seen
    IN  IF next = {} THEN seen ELSE Below(graph, next, seen \cup next)

C20_PinStackCells ==
    (/\ call.fn = "make_pin_stack"
     /\ Len(call.surfaces) >= 1
     /\ Ascending(call.surfaces)
     /\ Len(call.fills) = Len(call.surfaces) + 1)
    => LET k == Len(call.surfaces)
       IN  /\ Returned
           /\ Len(ret.cells) = k + 2
           /\ \A i \in 1..(k + 1) :
                 /\ ret.cells[i].fill = call.fills[i]
                 /\ ret.cells[i].region
                       = Append(subdivide(call.surfaces)[i], Pos(call.boundary))
           /\ ret.cells[k + 2].fill = call.inner
           /\ ret.cells[k + 2].region = <<Neg(call.boundary)>>
           /\ \A pt \in Points :
                 /\ Cardinality(CellsAt(ret.cells, pt)) = 1
                 /\ Evaluate(call.boundary, pt) < 0 <=> CellsAt(ret.cells, pt) = {k + 2}

\* a stack on three planes: a point inside the boundary lies in the inner
\* cell, one on the boundary and one outside it in cells of the subdivision
C20_Witness ==
    /\ call.fn = "make_pin_stack"
    /\ Len(call.surfaces) = MaxK
    /\ Ascending(call.surfaces)
    /\ Len(call.fills) = MaxK + 1
    /\ Returned
    /\ Len(ret.cells) = MaxK + 2
    /\ \E in, on, out \in Points :
          /\ Evaluate(call.boundary, in) < 0
          /\ Evaluate(call.boundary, on) = 0
          /\ Evaluate(call.boundary, out) > 0
          /\ Evaluate(call.surfaces[1], out) > 0
          /\ Evaluate(call.surfaces[2], out) < 0
          /\ CellsAt(ret.cells, in) = {MaxK + 2}
          /\ CellsAt(ret.cells, on) # {MaxK + 2}
          /\ CellsAt(ret.cells, out) = {2}

(***************************************************************************)
(* C21: rotations about the vertical axis compose as angles modulo 360.    *)
(***************************************************************************)
Wrappers == {id \in 1..Len(heap) : IsWrapper(heap, id)}

AboutZ(id) ==
    /\ heap[id].cells[1].rotation[1] = 0
    /\ heap[id].cells[1].rotation[2] = 0

\* the universe n wrappers below id, 0 when there are fewer than n
RECURSIVE Beneath(_, _)
Beneath(id, n) ==
    IF n = 0 THEN id
    ELSE IF ~IsWrapper(heap, id) THEN 0
    ELSE Beneath(heap[id].cells[1].fill.univ, n - 1)

QuarterTurns(id, n) ==
    \A m \in 0..(n - 1) :
        /\ Beneath(id, m) \in Wrappers
        /\ heap[Beneath(id, m)].cells[1].rotation = <<0, 0, 90>>

\* C21: every rotation given to rotate_universe has three components that
\* are multiples of 90 degrees; two successive rotations about z give the
\* rotation about z by the sum of their angles modulo 360; and a universe
\* wrapped four times in succession with (0, 0, 90) has the orientation of
\* the universe wrapped first.
C21_QuarterTurnsCompose ==
    /\ \A id \in Wrappers : \A c \in 1..3 : heap[id].cells[1].rotation[c] % 90 = 0
    /\ \A id \in Wrappers :
          LET below == heap[id].cells[1].fill.univ
          IN  (AboutZ(id) /\ below \in Wrappers /\ AboutZ(below))
              => MatMul(RotationMatrix(heap[below].cells[1].rotation),
                        RotationMatrix(heap[id].cells[1].rotation))
                 = RotationMatrix(<<0, 0, (heap[below].cells[1].rotation[3]
                                           + heap[id].cells[1].rotation[3]) % 360>>)
    /\ \A id \in Wrappers :
          QuarterTurns(id, 4) => Orientation(heap, id) = Orientation(heap, Beneath(id, 4))

\* a block wrapped four times with (0, 0, 90): one quarter turn is not the
\* original orientation, four are
C21_Witness ==
    /\ unit = "turn"
    /\ wrapped.n = 4
    /\ QuarterTurns(Len(heap), 4)
    /\ ~IsWrapper(heap, Beneath(Len(heap), 4))
    /\ Orientation(heap, Beneath(Len(heap), 3)) # Identity
    /\ Orientation(heap, Len(heap)) = Identity

(***************************************************************************)
(* C22: make_pin with a spacer grid.                                       *)
(***************************************************************************)
\* C22: with a non-empty grid, make_pin on k >= 1 cylinders and k+1 fills
\* returns exactly k+2 cells: the first k are those of the call without grid,
\* the outermost ring is +surfaces[k-1] cut to the rod grid box, and the cell
\* added last is the complement of the rod grid box, as surfaces.py defines
\* it, filled with Inconel for grid 'bottom' and with Zircaloy otherwise.
C22_GridCells ==
    (/\ call.fn = "make_pin"
     /\ call.grid # ""
     /\ Len(call.surfaces) >= 1
     /\ Len(call.fills) = Len(call.surfaces) + 1)
    => LET k == Len(call.surfaces)
       IN  /\ Returned
           /\ Len(ret.cells) = k + 2
           /\ ret.cells[1] = Cell(call.fills[1], <<Neg(call.surfaces[1])>>)
           /\ \A i \in 1..(k - 1) :
                 ret.cells[i + 1] = Cell(call.fills[i + 1],
                                         <<Pos(call.surfaces[i]), Neg(call.surfaces[i + 1])>>)
           /\ ret.cells[k + 1] = Cell(call.fills[k + 1],
                                      <<Pos(call.surfaces[k]), Inside(rod_grid_box)>>)
           /\ ret.cells[k + 2].region = <<Complement(rod_grid_box)>>
           /\ ret.cells[k + 2].fill = (IF call.grid = "bottom" THEN "In" ELSE "Zr")

\* a pin of two cylinders with a grid that is neither 'bottom' nor
\* 'intermediate': four cells, the last one Zircaloy
C22_Witness ==
    /\ call.fn = "make_pin"
    /\ call.grid = "top"
    /\ Len(call.surfaces) = 2
    /\ Len(call.fills) = 3
    /\ Returned
    /\ Len(ret.cells) = 4
    /\ ret.cells[4].fill = "Zr"
    /\ ret.cells[3].region # <<Pos(call.surfaces[2])>>

(***************************************************************************)
(* C23: the length contract at the call sites of pin_universes.            *)
(***************************************************************************)
\* the cells that hold the materials passed (a grid adds one cell of its own)
MaterialCells ==
    IF call.grid = "" THEN ret.cells ELSE SubSeq(ret.cells, 1, Len(ret.cells) - 1)

\* C23: every control rod pin call of pin_universes passes one material
\* more than it passes surfaces, and every material listed is the fill of
\* exactly one cell of the universe returned, in order
C23_FillsOneLonger ==
    (unit = "pins" /\ call # NoCall)
    => /\ Len(call.fills) = Len(call.surfaces) + 1
       /\ Returned
       /\ Len(MaterialCells) = Len(call.fills)
       /\ \A i \in 1..Len(call.fills) : MaterialCells[i].fill = call.fills[i]

(***************************************************************************)
(* C24: the planes of a bank stack are strictly ascending.                 *)
(***************************************************************************)
\* C24: for CRs within the bounds [0, 359.634], ends included, the planes of
\* the stack of each of the banks A..D are strictly ascending: bottom FR <
\* dashpot top < bank bottom < bank top.
C24_BankPlanesAscend ==
    (unit = "planes" /\ call # NoCall)
    => /\ Len(call.surfaces) = 4
       /\ \A i \in 1..3 : FloatLess(call.surfaces[i], call.surfaces[i + 1])
       /\ Returned
       /\ Len(ret.cells) = 5

\* a bank inserted to the upper bound: its bottom plane is the double next
\* above the dashpot top, 405.713 - 359.634 = 46.07900000000001 > 46.079
C24_Witness ==
    /\ unit = "planes"
    /\ call # NoCall
    /\ call.fills[call.num_axial] = Float(UpperBound, 2048)
    /\ call.surfaces[3].n = call.surfaces[2].n
    /\ call.surfaces[3].e > call.surfaces[2].e
    /\ Len(ret.cells) = 5

(***************************************************************************)
(* C25: the cells of an assembly universe partition space.                 *)
(***************************************************************************)
GridPlanes == [n \in 1..10 |-> IF n % 2 = 1 THEN grid_bottom((n + 1) \div 2)
                                            ELSE grid_top(n \div 2)]

\* heights at and next to each grid plane, sides at and next to each box
AssemblyPoints ==
    [z  : UNION {{GridPlanes[n].num \div 4 - 1, GridPlanes[n].num \div 4,
                  GridPlanes[n].num \div 4 + 1} : n \in 1..10},
     r2 : {0},
     d  : {0} \cup UNION {{b.num - 1, b.num, b.num + 1} :
                             b \in {lat_grid_box_inner, lat_grid_box_outer}}]

\* the fill the claim gives a point between the two boxes: the sleeve
\* between the bottom and the top of a grid, water elsewhere
BetweenBoxesFill(pt) ==
    IF \E i \in 1..5 : Evaluate(grid_bottom(i), pt) >= 0 /\ Evaluate(grid_top(i), pt) < 0
    THEN Sleeve(CHOOSE i \in 1..5 :
                    Evaluate(grid_bottom(i), pt) >= 0 /\ Evaluate(grid_top(i), pt) < 0)
    ELSE "H2O"

\* C25: the 13 cells of a universe returned by make_assembly are pairwise
\* disjoint and cover space: a point inside the inner grid box is only in
\* the lattice cell, one outside the outer grid box only in the outer water,
\* one between the boxes in exactly one of the 11 axial cells, whose fills
\* alternate water and sleeve between the ten ascending grid planes.
C25_AssemblyPartition ==
    call.fn = "make_assembly"
    => /\ Returned
       /\ Len(ret.cells) = 13
       /\ Ascending(GridPlanes)
       /\ \A pt \in AssemblyPoints :
             /\ Cardinality(CellsAt(ret.cells, pt)) = 1
             /\ Evaluate(lat_grid_box_inner, pt) < 0 => CellsAt(ret.cells, pt) = {1}
             /\ Evaluate(lat_grid_box_outer, pt) >= 0 => CellsAt(ret.cells, pt) = {2}
             /\ (Evaluate(lat_grid_box_inner, pt) >= 0 /\ Evaluate(lat_grid_box_outer, pt) < 0)
                => \A i \in CellsAt(ret.cells, pt) :
                      /\ i \in 3..13
                      /\ ret.cells[i].fill = BetweenBoxesFill(pt)

\* an assembly whose sleeve holds a point of the Inconel grid, one of a
\* Zircaloy grid and one of the water between them
C25_Witness ==
    /\ call.fn = "make_assembly"
    /\ Len(ret.cells) = 13
    /\ ret.cells[1].fill = assembly.key
    /\ ret.cells[4].fill = "In"
    /\ ret.cells[5].fill = "H2O"
    /\ ret.cells[6].fill = "Zr"
    /\ \A i \in 4..6 : \E pt \in AssemblyPoints : CellsAt(ret.cells, pt) = {i}

(***************************************************************************)
(* C26: a bounding cell hands no point to its lattice that the lattice     *)
(* does not hold.                                                          *)
(***************************************************************************)
Enclosed == unit = "enclose" /\ probe # NoProbe

\* C26: every point of the region of the cell that bounds the 9x9 core
\* lattice, the 17x17 assembly lattice or the 11x11 lattice of pwr_assembly
\* has an index floor((p - lower_left)/pitch) inside the array on both axes.
C26_EnclosedInLattice ==
    Enclosed
    => /\ probe.ix \in 0..(probe.i - 1)
       /\ probe.iy \in 0..(probe.j - 1)

\* a point on the lower x face and next to the upper y face of the box of
\* pwr_assembly: first column, last row
C26_Witness ==
    /\ Enclosed
    /\ probe.lattice = "Fuel Assembly"
    /\ probe.x = pwr_lattice.lower_left
    /\ probe.y = assm_width \div 2 - 1
    /\ probe.ix = 0
    /\ probe.iy = 10

(***************************************************************************)
(* C27: the bitmask of FIT and the lattice built from it.                  *)
(***************************************************************************)
\* the candidate of an evaluation of assembly_final.py that has been called
Called(e) == script = "assembly_final" /\ evals[e].pc # "idle"

\* C27: for every candidate of 121 entries in {0, 1}, idx -> (idx // 11,
\* idx % 11) is a bijection from 0..120 onto the 11x11 positions, the
\* lattice holds the void universe exactly at the images of the entries
\* equal to 0 and the fuel pin elsewhere, and the fuel count of the penalty
\* is the number of non-zero entries.
C27_BitmaskLattice ==
    \A e \in Evaluations :
        Called(e)
        => LET arr   == Candidate(evals[e].voids)
               built == pwr_universes(list_x(arr), list_y(arr))
           IN  /\ \A p \in PinPositions :
                     Cardinality({idx \in 0..120 : <<idx \div 11, idx % 11>> = p}) = 1
               /\ evals[e].exc # "IndexError"
               /\ built.exc = ""
               /\ \A idx \in 0..120 :
                     built.universes[<<idx \div 11, idx % 11>>]
                        = (IF arr[idx + 1] = 0 THEN "void pin" ELSE "Fuel Pin")
               /\ total_pin - Len(list_x(arr))
                     = Cardinality({idx \in 0..120 : arr[idx + 1] # 0})

(***************************************************************************)
(* C28: the fuel fill of pin_universes.                                    *)
(***************************************************************************)
\* C28: for num_rings >= 1 and num_axial >= 1 the RuntimeError of
\* subdivided_fuel is never raised; with more than one ring or segment the
\* fuel fill is a universe of exactly num_axial * num_rings cells, made of
\* num_axial - 1 planes and num_rings - 1 cylinders of squared radius
\* i * pellet_OR^2 / num_rings, ascending and below pellet_OR; with one ring
\* and one segment it is the plain fuel material.
C28_FuelFillCells ==
    call.fn = "fuel_fill"
    => LET na == call.num_axial
           nr == call.num_rings
       IN  /\ ret.exc # "RuntimeError"
           /\ (na > 1 \/ nr > 1)
              => /\ Returned
                 /\ ret.mat = ""
                 /\ Len(ret.cells) = na * nr
                 /\ \A c \in 1..Len(ret.cells) : ret.cells[c].fill = call.inner
                 /\ \A c, d \in 1..Len(ret.cells) :
                       c # d => ret.cells[c].region # ret.cells[d].region
                 /\ Len(axial_surfs(na)) = na - 1
                 /\ Ascending(axial_surfs(na))
                 /\ Len(rings(nr)) = nr - 1
                 /\ Ascending(rings(nr))
                 /\ \A i \in 1..(nr - 1) :
                       /\ rings(nr)[i].num = i * pellet_OR * pellet_OR
                       /\ rings(nr)[i].den = nr
                       /\ rings(nr)[i].num < pellet_OR * pellet_OR * rings(nr)[i].den
           /\ (na = 1 /\ nr = 1) => ret = Material(call.inner)

\* the finest subdivision: MaxSplit segments of MaxSplit rings each
C28_Witness ==
    /\ call.fn = "fuel_fill"
    /\ call.num_axial = MaxSplit
    /\ call.num_rings = MaxSplit
    /\ Returned
    /\ Len(ret.cells) = MaxSplit * MaxSplit
    /\ Len(ret.cells[1].region) = 2
    /\ Len(ret.cells[Len(ret.cells)].region) = 2

(***************************************************************************)
(* C29                                                                     *)
(***************************************************************************)
\* the keys the next statement of the build reads
NextReads ==
    IF names.pc < Len(BuildProgram(names.fuel))
    THEN BuildProgram(names.fuel)[names.pc + 1].reads
    ELSE {}

\* C29: a core_geometry build never looks up a name that is absent from a
\* registry: no statement raises KeyError, because every key the next
\* statement reads from surfs, mats, the pin catalog, the assembly catalog
\* or the reflector catalog has been bound earlier in the same build or at
\* import - the planes of the banks A..D and SA..SE, the stacks
\* 'GT CR bank SA' .. 'GT CR bank SE' and every assembly and reflector key
\* placed in the core lattice among them.
C29_NoMissingKey ==
    unit = "names" =>
        /\ names.exc = ""
        /\ NextReads \subseteq names.defined

\* a build is about to place the universes in the core lattice: the stacks
\* of every bank have been made from their planes and read by
\* assembly_universes, and the last statement reads assembly and reflector keys
C29_Witness ==
    /\ unit = "names"
    /\ names.exc = ""
    /\ names.pc = Len(BuildProgram(names.fuel)) - 1
    /\ Keys("pins", {"GT CR bank " \o b : b \in {"A", "D", "SA", "SE"}}) \subseteq names.defined
    /\ Keys("surfs", {"bankA bot", "bankD top", "bankSA bot", "bankSE top"})
          \subseteq names.defined
    /\ <<"assemblies", "Assembly (2.4%) CR A">> \in NextReads
    /\ <<"reflector", "8,6">> \in NextReads

(***************************************************************************)
(* C30                                                                     *)
(***************************************************************************)
\* the banks the components of CRs stand for, in order
ParameterBanks == <<"A", "B", "C", "D">>

\* build w has returned and no other build of its interpreter ran meanwhile
Sequential(w) == Finished(w) /\ ~workers[w].overlapped

\* the keys of surfs bound by the statements a build has executed
BoundInBuild == {d \in names.defined : d[1] = "surfs"} \ Keys("surfs", SurfsAtImport)

====
